---- MODULE Spec2Model ----
(***************************************************************************)
(* CoreDNS service-record storage backends: the in-memory backend          *)
(* (MemoryBackend, a map guarded by a read-write mutex) and the embedded   *)
(* SQL backend (SQLiteBackend, one table queried with LIKE), with the      *)
(* operations GetServices, SaveService, DeleteService and the diagnostic   *)
(* extensions.  Strings that the code inspects character by character      *)
(* (keys, prefixes) are sequences of one-character strings; strings the    *)
(* code only stores and returns (Host, Text, Group) are opaque.            *)
(***************************************************************************)
EXTENDS Integers, Sequences, FiniteSets, TLC

VARIABLES
  mem,      \* MemoryBackend.services: key -> Service value without Key
  sql,      \* SQLiteBackend's table services: key -> encoded document
  last,     \* the most recent sequential call and what it returned
  backend,  \* which backend the concurrent callers share
  start,    \* the store the concurrent callers started from
  pc,       \* per caller: where it is inside its call
  call,     \* per caller: the operation and its arguments
  ctxDone,  \* per caller: whether its context is canceled
  rw,       \* the backend's sync.RWMutex
  conn,     \* holder of the pool's single connection (0: free)
  loc,      \* per caller: local variables and return values
  env,      \* the process environment: COREDNS_BACKEND, COREDNS_SQLITE_PATH
  sel,      \* the most recent call of the backend selector and its result
  diag,     \* the in-memory backend's maps and slices as objects on the heap
  disk,     \* the database files, and the path the embedded-SQL backend has open
  caller    \* the Service object a caller passes to SaveService by pointer

conc == <<backend, start, pc, call, ctxDone, rw, conn, loc>>

side == <<env, sel, diag, disk, caller>>

vars == <<mem, sql, last, conc, side>>

(***************************************************************************)
(* Bounds and input sets                                                   *)
(***************************************************************************)
\* Priorities offered to SaveService are 0..MaxPriority.
MaxPriority == 1

\* The default priority substituted on read (package constant `priority`).
priority == 10

\* Keys records are saved under: a name, a child of it, and a sibling
\* that shares the name as a string prefix without a separator.
KeySpace ==
  { <<"/", "a">>,
    <<"/", "a", "/", "b">>,
    <<"/", "a", "b">> }

\* Keys and prefixes passed to DeleteService and GetServices.
ArgSpace ==
  KeySpace \cup
  { <<>>, <<"/", "a", "/">>, <<"/", "A">>, <<"/", "_">>, <<"/", "%">> }

Hosts == {"1.2.3.4", "5.6.7.8"}

ErrNil == "nil"
ErrCanceled == "context canceled"
ErrEngine == "engine error"

(***************************************************************************)
(* The Service record                                                      *)
(***************************************************************************)
\* The zero value of the Service struct.
ZeroService ==
  [Host |-> "", Port |-> 0, Priority |-> 0, Weight |-> 0, Text |-> "",
   Mail |-> FALSE, TTL |-> 0, TargetStrip |-> 0, Group |-> "", Key |-> <<>>]

\* Records handed to SaveService: a fully populated one per host
\* "1.2.3.4" and one with every optional field left zero per "5.6.7.8".
MkService(host, prio, key) ==
  IF host = "1.2.3.4"
  THEN [Host |-> host, Port |-> 8080, Priority |-> prio, Weight |-> 100,
        Text |-> "heritage=external-dns", Mail |-> TRUE, TTL |-> 3600,
        TargetStrip |-> 1, Group |-> "mygroup", Key |-> key]
  ELSE [ZeroService EXCEPT !.Host = host, !.Priority = prio, !.Key = key]

ServiceSpace ==
  { MkService("1.2.3.4", p, k) : p \in 0..MaxPriority, k \in KeySpace }
  \cup { MkService("5.6.7.8", 0, k) : k \in KeySpace }

(***************************************************************************)
(* String primitives                                                       *)
(***************************************************************************)
\* Byte value of a character (ASCII), the order sort.Strings and the SQL
\* engine's BINARY collation compare by.
CharCode(c) ==
  CASE c = "%" -> 37
    [] c = "-" -> 45
    [] c = "/" -> 47
    [] c = "A" -> 65
    [] c = "_" -> 95
    [] c = "a" -> 97
    [] c = "b" -> 98

\* Variant: a prefix test that also wants a complete path component (the
\* test of the unused helper keyMatchesPrefix).
HasPrefixSegment(s, prefix) ==
  /\ Len(s) >= Len(prefix)
  /\ SubSeq(s, 1, Len(prefix)) = prefix
  /\ (Len(s) = Len(prefix) \/ s[Len(prefix) + 1] = "/")

\* strings.HasPrefix(s, prefix)
HasPrefix(s, prefix) ==
  /\ Len(s) >= Len(prefix)
  /\ SubSeq(s, 1, Len(prefix)) = prefix

\* ASCII case folding the SQL engine applies to both sides of LIKE.
FoldCase(c) ==
  IF c = "A" THEN "a" ELSE IF c = "B" THEN "b" ELSE c

\* The SQL engine's LIKE operator without an ESCAPE clause: '%' in the
\* pattern matches any run of characters, '_' any single character, and
\* every other character matches itself up to ASCII case.
RECURSIVE LikeMatch(_, _)
LikeMatch(pat, str) ==
  IF pat = <<>> THEN str = <<>>
  ELSE IF Head(pat) = "%"
       THEN \E i \in 0..Len(str) :
              LikeMatch(Tail(pat), SubSeq(str, i + 1, Len(str)))
  ELSE IF str = <<>> THEN FALSE
  ELSE IF Head(pat) = "_" THEN LikeMatch(Tail(pat), Tail(str))
  ELSE /\ FoldCase(Head(pat)) = FoldCase(Head(str))
       /\ LikeMatch(Tail(pat), Tail(str))

\* Byte-wise lexicographic order of strings.
RECURSIVE StringLess(_, _)
StringLess(s, t) ==
  IF t = <<>> THEN FALSE
  ELSE IF s = <<>> THEN TRUE
  ELSE IF CharCode(Head(s)) # CharCode(Head(t))
       THEN CharCode(Head(s)) < CharCode(Head(t))
  ELSE StringLess(Tail(s), Tail(t))

\* The elements of the set S in ascending order.
RECURSIVE Ascending(_)
Ascending(S) ==
  IF S = {} THEN <<>>
  ELSE LET least == CHOOSE x \in S : \A y \in S \ {x} : StringLess(x, y)
       IN <<least>> \o Ascending(S \ {least})

\* Orders in which a range over a map with key set S, or a SELECT without
\* ORDER BY, may deliver the keys.  Go randomises the order of a map range
\* and the engine delivers the rows as the table holds them, so every
\* arrangement of S can occur.
RECURSIVE Orders(_)
Orders(S) ==
  IF S = {} THEN { <<>> }
  ELSE UNION { { <<x>> \o rest : rest \in Orders(S \ {x}) } : x \in S }

\* The arrangements of S that differ in the order of the keys in `hit`:
\* one arrangement of S for every order in which a scan can meet the keys
\* it does not skip.  The keys it skips are placed last; where they stand
\* makes no difference to what the scan collects.
ScanOrders(S, hit) ==
  { met \o Ascending(S \ hit) : met \in Orders(S \cap hit) }

\* Removes the entries of a map whose key is in `dropped`.
Without(store, dropped) ==
  [k \in DOMAIN store \ dropped |-> store[k]]

\* Variant: an insert that keeps the entry a key already has.
PutIfAbsent(store, key, value) ==
  [k \in DOMAIN store \cup {key} |-> IF k \in DOMAIN store THEN store[k] ELSE value]

\* store[key] = value (insert or overwrite)
Put(store, key, value) ==
  [k \in DOMAIN store \cup {key} |-> IF k = key THEN value ELSE store[k]]

EmptyStore == [k \in {} |-> ZeroService]

(***************************************************************************)
(* Shared read policy of GetServices                                       *)
(***************************************************************************)
\* The composite literal Service{Host, Port, Priority, Weight, Text, Key}.
DedupKey(svc, key) ==
  [ZeroService EXCEPT !.Host = svc.Host, !.Port = svc.Port,
                      !.Priority = svc.Priority, !.Weight = svc.Weight,
                      !.Text = svc.Text, !.Key = key]

\* seen := make(map[Service]bool); var services []*Service
NoneSeen == [seen |-> {}, services |-> <<>>]

\* Variant: no default is substituted.
DefaultPriorityOff(svc) == svc

\* if svc.Priority == 0 { svc.Priority = priority }
DefaultPriority(svc) ==
  IF svc.Priority = 0 THEN [svc EXCEPT !.Priority = priority] ELSE svc

(***************************************************************************)
(* In-memory backend (MemoryBackend): services is a map from key to the    *)
(* Service value with its Key field cleared.                               *)
(***************************************************************************)
\* Variant: the returned copy keeps the cleared Key of the stored value.
MemoryScanStepNoKey(store, key, prefix, acc) ==
  LET svc == store[key]
      dedupKey == DedupKey(svc, key)
  IN IF ~HasPrefix(key, prefix) THEN acc
     ELSE IF dedupKey \in acc.seen THEN acc
     ELSE [seen |-> acc.seen \cup {dedupKey},
           services |-> Append(acc.services, DefaultPriority(svc))]

\* One iteration of GetServices' loop over the map, at entry `key`;
\* acc holds the locals seen and services.
MemoryScanStep(store, key, prefix, acc) ==
  LET svc == store[key]
      svcCopy == [svc EXCEPT !.Key = key]
      dedupKey == DedupKey(svc, key)
  IN IF ~HasPrefix(key, prefix) THEN acc
     ELSE IF dedupKey \in acc.seen THEN acc
     ELSE [seen |-> acc.seen \cup {dedupKey},
           services |-> Append(acc.services, DefaultPriority(svcCopy))]

\* The whole loop, visiting the map's keys in `order`.
RECURSIVE MemoryScan(_, _, _, _)
MemoryScan(store, order, prefix, acc) ==
  IF order = <<>> THEN acc.services
  ELSE MemoryScan(store, Tail(order), prefix,
                  MemoryScanStep(store, Head(order), prefix, acc))

\* GetServices: entry check of the context, then the scan.
MemoryGetServices(store, prefix, canceled, order) ==
  IF canceled
  THEN [res |-> <<>>, err |-> ErrCanceled]
  ELSE [res |-> MemoryScan(store, order, prefix, NoneSeen), err |-> ErrNil]

\* Variant: the record is stored before the context is looked at.
MemorySaveServiceNoCheck(store, service, canceled) ==
  [store |-> Put(store, service.Key, [service EXCEPT !.Key = <<>>]),
   service |-> service,
   err |-> IF canceled THEN ErrCanceled ELSE ErrNil]

\* Variant: the default Priority is filled in when the record is stored.
MemorySaveServiceDefaulting(store, service, canceled) ==
  IF canceled
  THEN [store |-> store, service |-> service, err |-> ErrCanceled]
  ELSE [store |-> Put(store, service.Key,
                      DefaultPriority([service EXCEPT !.Key = <<>>])),
        service |-> service,
        err |-> ErrNil]

\* Variant: the Key is cleared on the caller's record, which is then stored.
MemorySaveServiceInPlace(store, service, canceled) ==
  IF canceled
  THEN [store |-> store, service |-> service, err |-> ErrCanceled]
  ELSE [store |-> Put(store, service.Key, [service EXCEPT !.Key = <<>>]),
        service |-> [service EXCEPT !.Key = <<>>],
        err |-> ErrNil]

\* SaveService: entry check, then svcCopy := *service; svcCopy.Key = "";
\* m.services[service.Key] = svcCopy.  `service` in the result is the
\* caller's record (*service) after the call.
MemorySaveService(store, service, canceled) ==
  IF canceled
  THEN [store |-> store, service |-> service, err |-> ErrCanceled]
  ELSE [store |-> Put(store, service.Key, [service EXCEPT !.Key = <<>>]),
        service |-> service,
        err |-> ErrNil]

\* Variant: the separator is left out of the prefix.
MemoryDeleteMatchesPlain(k, key) ==
  k = key \/ HasPrefix(k, key)

\* The condition of DeleteService's loop: k == key || HasPrefix(k, key+"/").
MemoryDeleteMatches(k, key) ==
  k = key \/ HasPrefix(k, key \o <<"/">>)

\* DeleteService: entry check, then the loop deleting every matching key.
MemoryDeleteService(store, key, canceled) ==
  IF canceled
  THEN [store |-> store, err |-> ErrCanceled]
  ELSE [store |-> Without(store, { k \in DOMAIN store : MemoryDeleteMatches(k, key) }),
        err |-> ErrNil]

\* Count: len(m.services)
MemoryCount(store) == Cardinality(DOMAIN store)

\* Variant: the keys are returned in the order the map delivered them.
SortStringsOff(keys) == keys

\* sort.Strings: the ascending arrangement of the elements of keys.
SortStrings(keys) == Ascending({ keys[i] : i \in 1..Len(keys) })

\* Keys: collect the map's keys in range order, then sort.Strings.
MemoryKeys(store, order) == SortStrings(order)

\* Clear: m.services = make(map[string]Service)
MemoryClear(store) == EmptyStore

\* Snapshot: a new map holding every entry.
MemorySnapshot(store) == [k \in DOMAIN store |-> store[k]]

(***************************************************************************)
(* Embedded-SQL backend (SQLiteBackend): table services(key PRIMARY KEY,   *)
(* value), a map from key to the encoded document of the record.           *)
(***************************************************************************)
\* json.Marshal(service): the document holding the record's fields.
Marshal(service) ==
  [wellFormed |-> TRUE,
   host |-> service.Host, port |-> service.Port,
   priority |-> service.Priority, weight |-> service.Weight,
   text |-> service.Text, mail |-> service.Mail, ttl |-> service.TTL,
   targetstrip |-> service.TargetStrip, group |-> service.Group,
   key |-> service.Key]

\* json.Unmarshal(value, new(Service)): fails on a malformed document.
Unmarshal(value) ==
  IF ~value.wellFormed
  THEN [ok |-> FALSE, svc |-> ZeroService]
  ELSE [ok |-> TRUE,
        svc |-> [Host |-> value.host, Port |-> value.port,
                 Priority |-> value.priority, Weight |-> value.weight,
                 Text |-> value.text, Mail |-> value.mail, TTL |-> value.ttl,
                 TargetStrip |-> value.targetstrip, Group |-> value.group,
                 Key |-> value.key]]

\* WHERE key LIKE ? || '%'
SQLiteSelectMatches(k, prefix) == LikeMatch(prefix \o <<"%">>, k)

\* WHERE key = ? OR key LIKE ? || '/%'
SQLiteDeleteMatches(k, key) ==
  k = key \/ LikeMatch(key \o <<"/", "%">>, k)

\* A value column that is not the document of a record (written to the
\* database file by another program, or damaged).
Undecodable == [Marshal(ZeroService) EXCEPT !.wellFormed = FALSE]

\* Variant: a row that fails to decode is returned as an empty record.
SQLiteScanStepKeepUndecoded(table, key, acc) ==
  LET dec == Unmarshal(table[key])
      svc == [dec.svc EXCEPT !.Key = key]
      dedupKey == DedupKey(svc, key)
  IN IF dedupKey \in acc.seen THEN acc
     ELSE [seen |-> acc.seen \cup {dedupKey},
           services |-> Append(acc.services, DefaultPriority(svc))]

\* One iteration of GetServices' rows.Next() loop, at the row of `key`.
SQLiteScanStep(table, key, acc) ==
  LET dec == Unmarshal(table[key])
      svc == [dec.svc EXCEPT !.Key = key]
      dedupKey == DedupKey(svc, key)
  IN IF ~dec.ok THEN acc
     ELSE IF dedupKey \in acc.seen THEN acc
     ELSE [seen |-> acc.seen \cup {dedupKey},
           services |-> Append(acc.services, DefaultPriority(svc))]

\* The whole loop over the result rows, delivered in `order`.
RECURSIVE SQLiteScan(_, _, _)
SQLiteScan(table, order, acc) ==
  IF order = <<>> THEN acc.services
  ELSE SQLiteScan(table, Tail(order), SQLiteScanStep(table, Head(order), acc))

\* GetServices: QueryContext fails at once on a canceled context; otherwise
\* the matching rows are scanned.  `order` arranges the table's keys.
SQLiteGetServices(table, prefix, canceled, order) ==
  IF canceled
  THEN [res |-> <<>>, err |-> ErrCanceled]
  ELSE [res |-> SQLiteScan(table,
                  SelectSeq(order, LAMBDA k : SQLiteSelectMatches(k, prefix)),
                  NoneSeen),
        err |-> ErrNil]

\* Variant: a plain INSERT, which the primary key rejects for a stored key.
SQLiteSaveServiceInsertOnly(table, service, canceled) ==
  IF canceled
  THEN [store |-> table, err |-> ErrCanceled]
  ELSE IF service.Key \in DOMAIN table
  THEN [store |-> table, err |-> ErrEngine]
  ELSE [store |-> Put(table, service.Key, Marshal(service)), err |-> ErrNil]

\* SaveService: INSERT ... ON CONFLICT(key) DO UPDATE SET value = excluded.value
SQLiteSaveService(table, service, canceled) ==
  IF canceled
  THEN [store |-> table, err |-> ErrCanceled]
  ELSE [store |-> Put(table, service.Key, Marshal(service)), err |-> ErrNil]

\* DeleteService: one DELETE statement.
SQLiteDeleteService(table, key, canceled) ==
  IF canceled
  THEN [store |-> table, err |-> ErrCanceled]
  ELSE [store |-> Without(table, { k \in DOMAIN table : SQLiteDeleteMatches(k, key) }),
        err |-> ErrNil]

\* Count: SELECT COUNT(*) FROM services
SQLiteCount(table) == Cardinality(DOMAIN table)

\* Keys: SELECT key FROM services ORDER BY key
SQLiteKeys(table) ==
  Ascending(DOMAIN table)

(***************************************************************************)
(* Backend selector: GetBackendType, GetBackendConfig and NewBackend.      *)
(* Backend types and the value of COREDNS_BACKEND are sequences of         *)
(* characters; file paths are opaque.                                      *)
(***************************************************************************)
LowerLetters ==
  <<"a", "b", "c", "d", "e", "f", "g", "h", "i", "j", "k", "l", "m",
    "n", "o", "p", "q", "r", "s", "t", "u", "v", "w", "x", "y", "z">>

UpperLetters ==
  <<"A", "B", "C", "D", "E", "F", "G", "H", "I", "J", "K", "L", "M",
    "N", "O", "P", "Q", "R", "S", "T", "U", "V", "W", "X", "Y", "Z">>

ToLowerChar(c) ==
  IF \E i \in 1..26 : UpperLetters[i] = c
  THEN LowerLetters[CHOOSE i \in 1..26 : UpperLetters[i] = c]
  ELSE c

ToUpperChar(c) ==
  IF \E i \in 1..26 : LowerLetters[i] = c
  THEN UpperLetters[CHOOSE i \in 1..26 : LowerLetters[i] = c]
  ELSE c

\* Variant: the value is compared as it was written.
ToLowerOff(str) == str

\* strings.ToLower
ToLower(str) == [i \in 1..Len(str) |-> ToLowerChar(str[i])]

BackendTypeEtcd == <<"e", "t", "c", "d">>
BackendTypeSQLite == <<"s", "q", "l", "i", "t", "e">>
BackendTypeMemory == <<"m", "e", "m", "o", "r", "y">>

ErrUnknownBackend == "unknown backend type"

\* Every upper/lower-case spelling of a string.
RECURSIVE Casings(_)
Casings(str) ==
  IF str = <<>> THEN { <<>> }
  ELSE { <<c>> \o rest : c \in {Head(str), ToUpperChar(Head(str))},
                         rest \in Casings(Tail(str)) }

\* Values given to COREDNS_BACKEND: every spelling of the aliases "etcd"
\* and "mem", lower-case, upper-case and mixed spellings of the other
\* aliases, the empty string, and names that are no alias.
BackendEnvSpace ==
  Casings(<<"e", "t", "c", "d">>) \cup Casings(<<"m", "e", "m">>)
  \cup { <<"s", "q", "l", "i", "t", "e">>, <<"S", "Q", "L", "I", "T", "E">>, <<"S", "Q", "L", "i", "t", "e">>, <<"s", "q", "l", "i", "t", "e", "3">>, <<"S", "Q", "L", "I", "T", "E", "3">>,
         <<"m", "e", "m", "o", "r", "y">>, <<"M", "E", "M", "O", "R", "Y">>, <<"M", "e", "m", "o", "r", "y">>, <<"i", "n", "m", "e", "m", "o", "r", "y">>, <<"I", "n", "M", "e", "m", "o", "r", "y">>,
         <<"i", "n", "-", "m", "e", "m", "o", "r", "y">>, <<"I", "N", "-", "M", "E", "M", "O", "R", "Y">>, <<"I", "n", "-", "M", "e", "m", "o", "r", "y">> }
  \cup { <<>>, <<"c", "o", "n", "s", "u", "l">>, <<"C", "o", "n", "s", "u", "l">>, <<"m", "e", "m", "o">>, <<"s", "q", "l", "i", "t", "e", "4">>, <<"e", "t", "c">> }

\* Values given to COREDNS_SQLITE_PATH and to BackendConfig.SQLitePath.
PathSpace == {"", "/data/dns.db", ":memory:"}

DefaultSQLitePath == "/var/lib/external-dns/coredns.db"

Unset == [set |-> FALSE, val |-> <<>>]

NoEnv == [COREDNS_BACKEND |-> Unset,
          COREDNS_SQLITE_PATH |-> [set |-> FALSE, val |-> ""]]

\* os.Getenv: the value of the variable, empty when it is not set.
Getenv(e, name) == e[name].val

\* GetBackendType: the switch on the lower-cased COREDNS_BACKEND.
GetBackendType(e) ==
  LET backendStr == ToLower(Getenv(e, "COREDNS_BACKEND"))
  IN CASE backendStr \in { <<"s", "q", "l", "i", "t", "e">>, <<"s", "q", "l", "i", "t", "e", "3">> } -> BackendTypeSQLite
       [] backendStr \in { <<"m", "e", "m", "o", "r", "y">>, <<"m", "e", "m">>, <<"i", "n", "m", "e", "m", "o", "r", "y">>, <<"i", "n", "-", "m", "e", "m", "o", "r", "y">> } ->
            BackendTypeMemory
       [] backendStr \in { <<"e", "t", "c", "d">>, <<>> } -> BackendTypeEtcd
       [] OTHER -> backendStr

\* GetBackendConfig
GetBackendConfig(e) ==
  [Type |-> GetBackendType(e), SQLitePath |-> Getenv(e, "COREDNS_SQLITE_PATH")]

\* A nil *BackendConfig, and the configurations handed to NewBackend.
NilConfig == [nil |-> TRUE, Type |-> <<>>, SQLitePath |-> ""]

ConfigSpace ==
  { [nil |-> FALSE, Type |-> t, SQLitePath |-> p] :
      t \in { BackendTypeEtcd, BackendTypeSQLite, BackendTypeMemory,
              <<>>, <<"m", "e", "m">>, <<"M", "e", "m", "o", "r", "y">>, <<"s", "q", "l", "i", "t", "e", "3">>, <<"S", "Q", "L", "I", "T", "E">>, <<"c", "o", "n", "s", "u", "l">> },
      p \in PathSpace }

\* What NewBackend returns: the kind of backend ("nil": none), the path an
\* embedded-SQL backend reports, the records a new backend holds, the error.
NoBackend == [kind |-> "nil", path |-> "", count |-> 0, err |-> ErrNil]

\* NewMemoryBackend(): services: make(map[string]Service)
NewMemoryBackend ==
  [kind |-> "memory", path |-> "", count |-> MemoryCount(EmptyStore), err |-> ErrNil]

\* NewSQLiteBackend(path): the backend on the database at path, or the
\* error of creating the directory or opening the database.
NewSQLiteBackend(path, ok) ==
  IF ok THEN [kind |-> "sqlite", path |-> path, count |-> 0, err |-> ErrNil]
  ELSE [NoBackend EXCEPT !.err = ErrEngine]

\* newETCDClient(): the etcd client, or the error of reaching the cluster.
NewETCDClient(ok) ==
  IF ok THEN [kind |-> "etcd", path |-> "", count |-> 0, err |-> ErrNil]
  ELSE [NoBackend EXCEPT !.err = ErrEngine]

\* Variant: the configured type goes through the alias resolution of the
\* environment variable.
NewBackendResolving(cfg, e, ok) ==
  LET c == IF cfg.nil THEN GetBackendConfig(e) ELSE cfg
      t == GetBackendType([e EXCEPT !.COREDNS_BACKEND = [set |-> TRUE, val |-> c.Type]])
  IN CASE t = BackendTypeEtcd -> NewETCDClient(ok)
       [] t = BackendTypeSQLite ->
            NewSQLiteBackend(IF c.SQLitePath = "" THEN DefaultSQLitePath
                             ELSE c.SQLitePath, ok)
       [] t = BackendTypeMemory -> NewMemoryBackend
       [] OTHER -> [NoBackend EXCEPT !.err = ErrUnknownBackend]

\* Variant: an empty SQLitePath of a given configuration is taken from
\* COREDNS_SQLITE_PATH before the default applies.
NewBackendEnvPath(cfg, e, ok) ==
  LET c == IF cfg.nil THEN GetBackendConfig(e) ELSE cfg
      path == IF c.SQLitePath = "" THEN Getenv(e, "COREDNS_SQLITE_PATH")
              ELSE c.SQLitePath
  IN CASE c.Type = BackendTypeEtcd -> NewETCDClient(ok)
       [] c.Type = BackendTypeSQLite ->
            NewSQLiteBackend(IF path = "" THEN DefaultSQLitePath ELSE path, ok)
       [] c.Type = BackendTypeMemory -> NewMemoryBackend
       [] OTHER -> [NoBackend EXCEPT !.err = ErrUnknownBackend]

\* NewBackend(cfg): a nil cfg is replaced by GetBackendConfig(); then the
\* switch on cfg.Type.
NewBackend(cfg, e, ok) ==
  LET c == IF cfg.nil THEN GetBackendConfig(e) ELSE cfg
  IN CASE c.Type = BackendTypeEtcd -> NewETCDClient(ok)
       [] c.Type = BackendTypeSQLite ->
            NewSQLiteBackend(IF c.SQLitePath = "" THEN DefaultSQLitePath
                             ELSE c.SQLitePath, ok)
       [] c.Type = BackendTypeMemory -> NewMemoryBackend
       [] OTHER -> [NoBackend EXCEPT !.err = ErrUnknownBackend]

\* The record of a selector call: its argument, the environment it ran in,
\* and what it returned.
NoSel ==
  [op |-> "none", cfg |-> NilConfig, ok |-> TRUE, type |-> <<>>,
   config |-> [Type |-> <<>>, SQLitePath |-> ""], res |-> NoBackend]

(***************************************************************************)
(* The in-memory backend's objects.  A Go map or slice is a reference: the *)
(* heap maps each reference to the object's contents, the backend's field  *)
(* services holds the reference of the live map, and the caller holds the  *)
(* references Snapshot and Keys returned to it.  mem records what the      *)
(* backend's operations have stored; snapShadow and keysShadow record what *)
(* the caller did to the results it holds.                                 *)
(***************************************************************************)
Refs == 1..4

NoRef == 0

\* NewMemoryBackend: services refers to a new empty map.
NoDiag ==
  [heap |-> [r \in {1} |-> EmptyStore], services |-> 1,
   snap |-> NoRef, keys |-> NoRef,
   snapShadow |-> EmptyStore, keysShadow |-> <<>>]

\* References somebody still holds; the other objects are garbage.
LiveRefs(d) == {d.services, d.snap, d.keys} \ {NoRef}

Collect(d) == [d EXCEPT !.heap = [r \in LiveRefs(d) |-> d.heap[r]]]

\* make(...): a reference not in use.
Fresh(d) == CHOOSE r \in Refs : r \notin DOMAIN d.heap

\* Records the backend is given, and the value and the key a caller writes
\* into a result it holds.
DiagServices == { MkService("1.2.3.4", 1, k) : k \in KeySpace }

ForeignValue == [MkService("5.6.7.8", 1, <<>>) EXCEPT !.TTL = 300]

ForeignKey == <<"/", "A">>

\* Variant: Snapshot hands out the live map itself.
DiagSnapshotAlias(d) ==
  [d EXCEPT !.snap = d.services, !.snapShadow = d.heap[d.services]]

\* Snapshot: snapshot := make(map[string]Service, ...), filled entry by
\* entry from m.services, and returned.
DiagSnapshot(d) ==
  LET r == Fresh(d)
  IN [d EXCEPT !.heap = [x \in DOMAIN d.heap \cup {r} |->
                           IF x = r THEN MemorySnapshot(d.heap[d.services])
                           ELSE d.heap[x]],
               !.snap = r,
               !.snapShadow = MemorySnapshot(d.heap[d.services])]

\* Keys: keys := make([]string, 0, ...), appended to, sorted and returned.
DiagKeys(d, order) ==
  LET r == Fresh(d)
  IN [d EXCEPT !.heap = [x \in DOMAIN d.heap \cup {r} |->
                           IF x = r THEN MemoryKeys(d.heap[d.services], order)
                           ELSE d.heap[x]],
               !.keys = r,
               !.keysShadow = MemoryKeys(d.heap[d.services], order)]

\* Clear: m.services = make(map[string]Service); the old map is left as
\* it is.
DiagClear(d) ==
  LET r == Fresh(d)
  IN [d EXCEPT !.heap = [x \in DOMAIN d.heap \cup {r} |->
                           IF x = r THEN MemoryClear(d.heap[d.services])
                           ELSE d.heap[x]],
               !.services = r]

(***************************************************************************)
(* The caller's record.  SaveService takes a *Service: rec is the object   *)
(* the pointer refers to (held: the caller has made one), saved the        *)
(* records as they were when they were given to a successful SaveService.  *)
(***************************************************************************)
NoCaller == [held |-> FALSE, rec |-> ZeroService, saved |-> EmptyStore]

\* The records a caller makes ...
OwnServices ==
  { [MkService("1.2.3.4", 0, k) EXCEPT !.TTL = 300] :
      k \in { <<"/", "a">>, <<"/", "a", "/", "b">> } }

\* ... and the TTL values it assigns to them later.
ChangedTTLs == {300, 600}

(***************************************************************************)
(* Database files of the embedded-SQL backend.  files holds the table of   *)
(* each database file; sql is the table seen through the open backend.     *)
(* saved records, per file, the records given to SaveService and not       *)
(* removed by DeleteService since.                                         *)
(***************************************************************************)
FilePaths == {"/data/dns.db", "/tmp/test.db"}

InMemoryPath == ":memory:"

Closed == ""

NoDisk ==
  [files |-> [p \in FilePaths |-> EmptyStore],
   saved |-> [p \in FilePaths |-> EmptyStore],
   open |-> Closed, reopened |-> FALSE]

\* Records saved through a backend that is closed and opened again.
RestartServices ==
  { MkService("1.2.3.4", p, k) :
      p \in 0..MaxPriority, k \in { <<"/", "a">>, <<"/", "a", "/", "b">> } }

\* Variant: the schema is created anew (the table is dropped first).
OpenDatabaseFresh(files, path) == EmptyStore

\* sql.Open and db.Exec(sqliteSchema), CREATE TABLE IF NOT EXISTS: the
\* table of the file as it is, a new empty one for ":memory:".
OpenDatabase(files, path) ==
  IF path = InMemoryPath THEN EmptyStore ELSE files[path]

\* A committed statement is in the database file.
WriteThrough(files, path, table) ==
  IF path = InMemoryPath THEN files ELSE [files EXCEPT ![path] = table]

(***************************************************************************)
(* Concurrent callers: each caller makes one call on the shared backend.   *)
(***************************************************************************)
\* Number of concurrent callers.
NumThreads == 2

Threads == 1..NumThreads

ReaderOps == {"GetServices", "Count", "Keys", "Snapshot"}
WriterOps == {"SaveService", "DeleteService", "Clear"}

NoArgs == [op |-> "none", key |-> <<>>, svc |-> ZeroService]

ErrUnset == "unset"

\* A caller's locals: the keys its loop has still to visit, the locals
\* seen/services of GetServices, the map value a write works on, and the
\* values returned (err, count, keys, snapshot).
NoLocal ==
  [todo |-> <<>>, acc |-> NoneSeen, tmp |-> EmptyStore, err |-> ErrUnset,
   res |-> <<>>, keys |-> <<>>, count |-> 0, snap |-> EmptyStore]

\* sync.RWMutex: the callers holding the read lock, and the caller that
\* holds or has announced the write lock (0: none).
RWInit == [readers |-> {}, writer |-> 0]

\* Variants: a lock that never makes its caller wait.
CanRLockAlways(m) == TRUE

CanLockAlways(m) == TRUE

\* Variant: a writer does not wait for the active readers.
CanEnterAlways(m) == TRUE

\* RLock proceeds unless a writer holds or awaits the lock.
CanRLock(m) == m.writer = 0

\* Lock first excludes every other writer ...
CanLock(m) == m.writer = 0

\* ... and then waits for the active readers to leave.
CanEnter(m) == m.readers = {}

(***************************************************************************)
(* State machine.  `last` records the most recent call: its arguments, the *)
(* stores before it, and what each backend returned.                       *)
(***************************************************************************)
NoCall ==
  [op |-> "none", key |-> <<>>, svc |-> ZeroService, canceled |-> FALSE,
   memPre |-> EmptyStore, sqlPre |-> EmptyStore,
   memRes |-> <<>>, memErr |-> ErrNil, sqlRes |-> <<>>, sqlErr |-> ErrNil,
   keys |-> <<>>, count |-> 0, snap |-> EmptyStore,
   sqlKeys |-> <<>>, sqlCount |-> 0]

Call(op) == [NoCall EXCEPT !.op = op, !.memPre = mem, !.sqlPre = sql]

\* No concurrent callers: every caller idle, lock and connection free.
Quiet ==
  /\ pc = [t \in Threads |-> "idle"]
  /\ call = [t \in Threads |-> NoArgs]
  /\ ctxDone = [t \in Threads |-> FALSE]
  /\ rw = RWInit
  /\ conn = 0
  /\ loc = [t \in Threads |-> NoLocal]

\* NewMemoryBackend / NewSQLiteBackend on a fresh database: empty stores.
Init ==
  /\ mem = EmptyStore
  /\ sql = EmptyStore
  /\ last = NoCall
  /\ backend = "none"
  /\ start = EmptyStore
  /\ Quiet
  /\ env = NoEnv
  /\ sel = NoSel
  /\ diag = NoDiag
  /\ disk = NoDisk
  /\ caller = NoCaller

\* ---- the in-memory backend alone ----
Mem_GetServices ==
  \E prefix \in ArgSpace, canceled \in BOOLEAN, order \in Orders(DOMAIN mem) :
    LET r == MemoryGetServices(mem, prefix, canceled, order)
    IN /\ last' = [Call("GetServices") EXCEPT !.key = prefix,
                     !.canceled = canceled, !.memRes = r.res, !.memErr = r.err]
       /\ UNCHANGED <<mem, sql, conc, side>>

Mem_SaveService ==
  \E service \in ServiceSpace, canceled \in BOOLEAN :
    LET r == MemorySaveService(mem, service, canceled)
    IN /\ mem' = r.store
       /\ last' = [Call("SaveService") EXCEPT !.key = service.Key,
                     !.svc = service, !.canceled = canceled, !.memErr = r.err]
       /\ UNCHANGED <<sql, conc, side>>

Mem_DeleteService ==
  \E key \in ArgSpace, canceled \in BOOLEAN :
    LET r == MemoryDeleteService(mem, key, canceled)
    IN /\ mem' = r.store
       /\ last' = [Call("DeleteService") EXCEPT !.key = key,
                     !.canceled = canceled, !.memErr = r.err]
       /\ UNCHANGED <<sql, conc, side>>

Mem_Count ==
  /\ last' = [Call("Count") EXCEPT !.count = MemoryCount(mem)]
  /\ UNCHANGED <<mem, sql, conc, side>>

Mem_Keys ==
  \E order \in Orders(DOMAIN mem) :
    /\ last' = [Call("Keys") EXCEPT !.keys = MemoryKeys(mem, order)]
    /\ UNCHANGED <<mem, sql, conc, side>>

Mem_Clear ==
  /\ mem' = MemoryClear(mem)
  /\ last' = Call("Clear")
  /\ UNCHANGED <<sql, conc, side>>

Mem_Snapshot ==
  /\ last' = [Call("Snapshot") EXCEPT !.snap = MemorySnapshot(mem)]
  /\ UNCHANGED <<mem, sql, conc, side>>

NextMem ==
  \/ Mem_GetServices
  \/ Mem_SaveService
  \/ Mem_DeleteService
  \/ Mem_Count
  \/ Mem_Keys
  \/ Mem_Clear
  \/ Mem_Snapshot

SpecMem == Init /\ [][NextMem]_vars

\* ---- the embedded-SQL backend alone ----
Sql_GetServices ==
  \E prefix \in ArgSpace, canceled \in BOOLEAN, order \in Orders(DOMAIN sql) :
    LET r == SQLiteGetServices(sql, prefix, canceled, order)
    IN /\ last' = [Call("GetServices") EXCEPT !.key = prefix,
                     !.canceled = canceled, !.sqlRes = r.res, !.sqlErr = r.err]
       /\ UNCHANGED <<mem, sql, conc, side>>

Sql_SaveService ==
  \E service \in ServiceSpace, canceled \in BOOLEAN :
    LET r == SQLiteSaveService(sql, service, canceled)
    IN /\ sql' = r.store
       /\ last' = [Call("SaveService") EXCEPT !.key = service.Key,
                     !.svc = service, !.canceled = canceled, !.sqlErr = r.err]
       /\ UNCHANGED <<mem, conc, side>>

Sql_DeleteService ==
  \E key \in ArgSpace, canceled \in BOOLEAN :
    LET r == SQLiteDeleteService(sql, key, canceled)
    IN /\ sql' = r.store
       /\ last' = [Call("DeleteService") EXCEPT !.key = key,
                     !.canceled = canceled, !.sqlErr = r.err]
       /\ UNCHANGED <<mem, conc, side>>

Sql_Count ==
  /\ last' = [Call("Count") EXCEPT !.count = SQLiteCount(sql)]
  /\ UNCHANGED <<mem, sql, conc, side>>

Sql_Keys ==
  /\ last' = [Call("Keys") EXCEPT !.keys = SQLiteKeys(sql)]
  /\ UNCHANGED <<mem, sql, conc, side>>

NextSql ==
  \/ Sql_GetServices
  \/ Sql_SaveService
  \/ Sql_DeleteService
  \/ Sql_Count
  \/ Sql_Keys

SpecSql == Init /\ [][NextSql]_vars

\* ---- the embedded-SQL backend on a table that other writers share ----
\* A row whose value is not a record's document appears in the table.
Foreign_Write ==
  /\ \E key \in KeySpace : sql' = Put(sql, key, Undecodable)
  /\ last' = NoCall
  /\ UNCHANGED <<mem, conc, side>>

NextForeign ==
  \/ NextSql
  \/ Foreign_Write

SpecForeign == Init /\ [][NextForeign]_vars

\* ---- both backends, started empty and given the same calls ----
GetServicesOf(prefixes) ==
  \E prefix \in prefixes, canceled \in BOOLEAN :
  \E mo \in ScanOrders(DOMAIN mem,
               IF canceled THEN {}
               ELSE { k \in DOMAIN mem : HasPrefix(k, prefix) }),
     so \in ScanOrders(DOMAIN sql,
               IF canceled THEN {}
               ELSE { k \in DOMAIN sql : SQLiteSelectMatches(k, prefix) }) :
    LET m == MemoryGetServices(mem, prefix, canceled, mo)
        s == SQLiteGetServices(sql, prefix, canceled, so)
    IN /\ last' = [Call("GetServices") EXCEPT !.key = prefix,
                     !.canceled = canceled, !.memRes = m.res, !.memErr = m.err,
                     !.sqlRes = s.res, !.sqlErr = s.err]
       /\ UNCHANGED <<mem, sql, conc, side>>

GetServices == GetServicesOf(ArgSpace)

SaveService ==
  \E service \in ServiceSpace, canceled \in BOOLEAN :
    LET m == MemorySaveService(mem, service, canceled)
        s == SQLiteSaveService(sql, service, canceled)
    IN /\ mem' = m.store
       /\ sql' = s.store
       /\ last' = [Call("SaveService") EXCEPT !.key = service.Key,
                     !.svc = service, !.canceled = canceled,
                     !.memErr = m.err, !.sqlErr = s.err]
       /\ UNCHANGED <<conc, side>>

DeleteService ==
  \E key \in ArgSpace, canceled \in BOOLEAN :
    LET m == MemoryDeleteService(mem, key, canceled)
        s == SQLiteDeleteService(sql, key, canceled)
    IN /\ mem' = m.store
       /\ sql' = s.store
       /\ last' = [Call("DeleteService") EXCEPT !.key = key,
                     !.canceled = canceled, !.memErr = m.err, !.sqlErr = s.err]
       /\ UNCHANGED <<conc, side>>

\* Keys() of the in-memory backend and Keys(ctx) of the embedded-SQL one.
Keys ==
  \E order \in Orders(DOMAIN mem) :
    /\ last' = [Call("Keys") EXCEPT !.keys = MemoryKeys(mem, order),
                                    !.sqlKeys = SQLiteKeys(sql)]
    /\ UNCHANGED <<mem, sql, conc, side>>

\* Count() of the in-memory backend and Count(ctx) of the embedded-SQL one.
Count ==
  /\ last' = [Call("Count") EXCEPT !.count = MemoryCount(mem),
                                   !.sqlCount = SQLiteCount(sql)]
  /\ UNCHANGED <<mem, sql, conc, side>>

Next ==
  \/ GetServices
  \/ SaveService
  \/ DeleteService
  \/ Keys
  \/ Count

Spec == Init /\ [][Next]_vars

\* ---- saves and every read operation, on both backends ----
Snapshot ==
  /\ last' = [Call("Snapshot") EXCEPT !.snap = MemorySnapshot(mem)]
  /\ UNCHANGED <<mem, sql, conc, side>>

\* Prefixes that select all, some and none of the records.
ReadPrefixes == { <<>>, <<"/", "a">>, <<"/", "a", "/">> }

NextRead ==
  \/ GetServicesOf(ReadPrefixes)
  \/ SaveService
  \/ Keys
  \/ Count
  \/ Snapshot

SpecRead == Init /\ [][NextRead]_vars

\* ---- the backend selector ----
\* os.Setenv("COREDNS_BACKEND", v) / os.Unsetenv("COREDNS_BACKEND")
SetBackendEnv ==
  /\ \E e \in {Unset} \cup { [set |-> TRUE, val |-> v] : v \in BackendEnvSpace } :
       env' = [env EXCEPT !.COREDNS_BACKEND = e]
  /\ sel' = NoSel
  /\ UNCHANGED <<mem, sql, last, conc, diag, disk, caller>>

\* os.Setenv("COREDNS_SQLITE_PATH", p) / os.Unsetenv("COREDNS_SQLITE_PATH")
SetPathEnv ==
  /\ \E e \in { [set |-> FALSE, val |-> ""] }
               \cup { [set |-> TRUE, val |-> p] : p \in PathSpace } :
       env' = [env EXCEPT !.COREDNS_SQLITE_PATH = e]
  /\ sel' = NoSel
  /\ UNCHANGED <<mem, sql, last, conc, diag, disk, caller>>

Sel_GetBackendType ==
  /\ sel' = [NoSel EXCEPT !.op = "GetBackendType", !.type = GetBackendType(env)]
  /\ UNCHANGED <<mem, sql, last, conc, env, diag, disk, caller>>

Sel_GetBackendConfig ==
  /\ sel' = [NoSel EXCEPT !.op = "GetBackendConfig",
                          !.config = GetBackendConfig(env)]
  /\ UNCHANGED <<mem, sql, last, conc, env, diag, disk, caller>>

\* NewBackend(cfg) for a nil or non-nil cfg; ok: whether the database (or
\* the etcd cluster) can be opened.
Sel_NewBackend ==
  /\ \E cfg \in ConfigSpace \cup {NilConfig}, ok \in BOOLEAN :
       sel' = [NoSel EXCEPT !.op = "NewBackend", !.cfg = cfg, !.ok = ok,
                            !.res = NewBackend(cfg, env, ok)]
  /\ UNCHANGED <<mem, sql, last, conc, env, diag, disk, caller>>

NextSel ==
  \/ SetBackendEnv
  \/ SetPathEnv
  \/ Sel_GetBackendType
  \/ Sel_GetBackendConfig
  \/ Sel_NewBackend

SpecSel == Init /\ [][NextSel]_vars

\* ---- the in-memory backend and the results its callers hold ----
\* SaveService writes into the map m.services refers to.
Diag_SaveService ==
  \E service \in DiagServices :
    /\ mem' = MemorySaveService(mem, service, FALSE).store
    /\ diag' = [diag EXCEPT !.heap[diag.services] =
                  MemorySaveService(@, service, FALSE).store]
    /\ UNCHANGED <<sql, last, conc, env, sel, disk, caller>>

\* DeleteService deletes from the map m.services refers to.
Diag_DeleteService ==
  \E key \in KeySpace :
    /\ mem' = MemoryDeleteService(mem, key, FALSE).store
    /\ diag' = [diag EXCEPT !.heap[diag.services] =
                  MemoryDeleteService(@, key, FALSE).store]
    /\ UNCHANGED <<sql, last, conc, env, sel, disk, caller>>

Diag_Clear ==
  /\ mem' = MemoryClear(mem)
  /\ diag' = Collect(DiagClear(diag))
  /\ UNCHANGED <<sql, last, conc, env, sel, disk, caller>>

\* The caller keeps the map Snapshot returned (and drops an earlier one).
Diag_Snapshot ==
  /\ diag' = Collect(DiagSnapshot([diag EXCEPT !.heap =
                 [r \in LiveRefs(diag) \ {diag.snap} |-> diag.heap[r]]]))
  /\ UNCHANGED <<mem, sql, last, conc, env, sel, disk, caller>>

\* The caller keeps the slice Keys returned (and drops an earlier one).
Diag_Keys ==
  /\ \E order \in Orders(DOMAIN diag.heap[diag.services]) :
       diag' = Collect(DiagKeys([diag EXCEPT !.heap =
                   [r \in LiveRefs(diag) \ {diag.keys} |-> diag.heap[r]]], order))
  /\ UNCHANGED <<mem, sql, last, conc, env, sel, disk, caller>>

\* The caller adds or changes an entry of the snapshot it holds.
Caller_PutSnapshot ==
  /\ diag.snap # NoRef
  /\ \E k \in KeySpace :
       diag' = [diag EXCEPT !.heap[diag.snap] = Put(@, k, ForeignValue),
                            !.snapShadow = Put(@, k, ForeignValue)]
  /\ UNCHANGED <<mem, sql, last, conc, env, sel, disk, caller>>

\* delete(snapshot, k)
Caller_DeleteSnapshot ==
  /\ diag.snap # NoRef
  /\ \E k \in KeySpace :
       diag' = [diag EXCEPT !.heap[diag.snap] = Without(@, {k}),
                            !.snapShadow = Without(@, {k})]
  /\ UNCHANGED <<mem, sql, last, conc, env, sel, disk, caller>>

\* keys[i] = "/A"
Caller_SetKey ==
  /\ diag.keys # NoRef
  /\ \E i \in 1..Len(diag.heap[diag.keys]) :
       diag' = [diag EXCEPT !.heap[diag.keys][i] = ForeignKey,
                            !.keysShadow[i] = ForeignKey]
  /\ UNCHANGED <<mem, sql, last, conc, env, sel, disk, caller>>

NextDiag ==
  \/ Diag_SaveService
  \/ Diag_DeleteService
  \/ Diag_Clear
  \/ Diag_Snapshot
  \/ Diag_Keys
  \/ Caller_PutSnapshot
  \/ Caller_DeleteSnapshot
  \/ Caller_SetKey

SpecDiag == Init /\ [][NextDiag]_vars

\* ---- the in-memory backend and the record its caller owns ----
\* svc := &Service{...}
Own_New ==
  /\ \E service \in OwnServices :
       caller' = [caller EXCEPT !.held = TRUE, !.rec = service]
  /\ last' = NoCall
  /\ UNCHANGED <<mem, sql, conc, env, sel, diag, disk>>

\* backend.SaveService(ctx, svc)
Own_SaveService ==
  /\ caller.held
  /\ \E canceled \in BOOLEAN :
       LET r == MemorySaveService(mem, caller.rec, canceled)
       IN /\ mem' = r.store
          /\ caller' = [caller EXCEPT
                          !.rec = r.service,
                          !.saved = IF r.err = ErrNil
                                    THEN Put(@, caller.rec.Key, caller.rec)
                                    ELSE @]
          /\ last' = [Call("SaveService") EXCEPT !.key = caller.rec.Key,
                        !.svc = caller.rec, !.canceled = canceled,
                        !.memErr = r.err]
  /\ UNCHANGED <<sql, conc, env, sel, diag, disk>>

\* svc.Host = ...; svc.TTL = ...
Own_Change ==
  /\ caller.held
  /\ \E host \in Hosts, ttl \in ChangedTTLs :
       /\ [caller.rec EXCEPT !.Host = host, !.TTL = ttl] # caller.rec
       /\ caller' = [caller EXCEPT !.rec = [@ EXCEPT !.Host = host, !.TTL = ttl]]
  /\ last' = Call("Change")
  /\ UNCHANGED <<mem, sql, conc, env, sel, diag, disk>>

\* backend.Snapshot()
Own_Snapshot ==
  /\ last' = [Call("Snapshot") EXCEPT !.snap = MemorySnapshot(mem)]
  /\ UNCHANGED <<mem, sql, conc, side>>

NextOwn ==
  \/ Own_New
  \/ Own_SaveService
  \/ Own_Change
  \/ Own_Snapshot

SpecOwn == Init /\ [][NextOwn]_vars

\* ---- the embedded-SQL backend across Close and NewSQLiteBackend ----
\* NewSQLiteBackend(path)
Restart_Open ==
  /\ disk.open = Closed
  /\ \E path \in FilePaths \cup {InMemoryPath} :
       LET table == OpenDatabase(disk.files, path)
       IN /\ sql' = table
          /\ disk' = [disk EXCEPT
                        !.open = path,
                        !.files = WriteThrough(@, path, table),
                        !.reopened = path \in FilePaths /\ disk.saved[path] # EmptyStore]
  /\ last' = NoCall
  /\ UNCHANGED <<mem, conc, env, sel, diag, caller>>

Restart_SaveService ==
  /\ disk.open # Closed
  /\ \E service \in RestartServices :
       LET r == SQLiteSaveService(sql, service, FALSE)
       IN /\ sql' = r.store
          /\ disk' = [disk EXCEPT
                        !.files = WriteThrough(@, disk.open, r.store),
                        !.saved = IF disk.open \in FilePaths
                                  THEN [@ EXCEPT ![disk.open] =
                                          Put(@, service.Key, service)]
                                  ELSE @]
  /\ last' = NoCall
  /\ UNCHANGED <<mem, conc, env, sel, diag, caller>>

Restart_DeleteService ==
  /\ disk.open # Closed
  /\ \E key \in { <<"/", "a">>, <<"/", "a", "/", "b">> } :
       LET r == SQLiteDeleteService(sql, key, FALSE)
       IN /\ sql' = r.store
          /\ disk' = [disk EXCEPT
                        !.files = WriteThrough(@, disk.open, r.store),
                        !.saved = IF disk.open \in FilePaths
                                  THEN [@ EXCEPT ![disk.open] =
                                          Without(@, { k \in DOMAIN @ :
                                            k = key \/ HasPrefix(k, key \o <<"/">>) })]
                                  ELSE @]
  /\ last' = NoCall
  /\ UNCHANGED <<mem, conc, env, sel, diag, caller>>

Restart_GetServices ==
  /\ disk.open # Closed
  /\ \E prefix \in { <<>>, <<"/", "a", "/">> }, order \in Orders(DOMAIN sql) :
       LET r == SQLiteGetServices(sql, prefix, FALSE, order)
       IN last' = [Call("GetServices") EXCEPT !.key = prefix,
                     !.sqlRes = r.res, !.sqlErr = r.err]
  /\ UNCHANGED <<mem, sql, conc, env, sel, diag, disk, caller>>

\* Close: db.Close()
Restart_Close ==
  /\ disk.open # Closed
  /\ disk' = [disk EXCEPT !.open = Closed, !.reopened = FALSE]
  /\ sql' = EmptyStore
  /\ last' = NoCall
  /\ UNCHANGED <<mem, conc, env, sel, diag, caller>>

NextRestart ==
  \/ Restart_Open
  \/ Restart_SaveService
  \/ Restart_DeleteService
  \/ Restart_GetServices
  \/ Restart_Close

SpecRestart == Init /\ [][NextRestart]_vars

\* ---- concurrent callers on one backend ----
\* A store a sequence of earlier saves leaves behind: every key of KeySpace.
SeedStore ==
  [k \in KeySpace |-> [MkService("5.6.7.8", 1, k) EXCEPT !.Key = <<>>]]

\* The table the same saves leave in the embedded-SQL backend.
TableOf(store) ==
  [k \in DOMAIN store |-> Marshal([store[k] EXCEPT !.Key = k])]

\* Calls a concurrent caller may make.
ConcArgs == { <<"/", "a">> }

\* Caller t saves records that carry Priority t, so that the content of a
\* stored record tells which caller saved it.
ConcCalls(b, t) ==
  { [NoArgs EXCEPT !.op = "SaveService", !.key = k,
                   !.svc = MkService("1.2.3.4", t, k)] : k \in KeySpace }
  \cup { [NoArgs EXCEPT !.op = o, !.key = k] :
           o \in {"GetServices", "DeleteService"}, k \in ConcArgs }
  \cup { [NoArgs EXCEPT !.op = o] :
           o \in IF b = "memory" THEN {"Count", "Keys", "Clear", "Snapshot"}
                 ELSE {"Count", "Keys"} }

\* A store holding the single record "/a".
OneRecord ==
  [k \in { <<"/", "a">> } |-> SeedStore[k]]

\* One call of each operation, on the key "/a".
LiveCalls(b, t) ==
  { c \in ConcCalls(b, t) : c.key \in { <<>>, <<"/", "a">> } }

\* A backend of either kind whose store is one of `stores`, and no caller.
InitFrom(stores) ==
  /\ backend \in {"memory", "sqlite"}
  /\ start \in stores
  /\ mem = IF backend = "memory" THEN start ELSE EmptyStore
  /\ sql = IF backend = "sqlite" THEN TableOf(start) ELSE EmptyStore
  /\ last = NoCall
  /\ Quiet
  /\ env = NoEnv
  /\ sel = NoSel
  /\ diag = NoDiag
  /\ disk = NoDisk
  /\ caller = NoCaller

InitConc == InitFrom({EmptyStore, SeedStore})

Op(t) == call[t].op

Goto(t, label) == pc' = [pc EXCEPT ![t] = label]

\* A caller starts one of `calls`, with a context that is live or already
\* canceled.  Callers are numbered in the order in which they start.
InvokeFrom(t, calls) ==
  /\ pc[t] = "idle"
  /\ \A u \in Threads : u < t => pc[u] # "idle"
  /\ \E c \in calls, d \in BOOLEAN :
       /\ call' = [call EXCEPT ![t] = c]
       /\ ctxDone' = [ctxDone EXCEPT ![t] = d]
  /\ Goto(t, "lock")
  /\ UNCHANGED <<mem, sql, last, side, backend, start, rw, conn, loc>>

Invoke(t) == InvokeFrom(t, ConcCalls(backend, t))

\* The caller's context is canceled while its call is running.
Cancel(t) ==
  /\ pc[t] \notin {"idle", "done"}
  /\ ~ctxDone[t]
  /\ ctxDone' = [ctxDone EXCEPT ![t] = TRUE]
  /\ UNCHANGED <<mem, sql, last, side, backend, start, pc, call, rw, conn, loc>>

\* mu.RLock()
RLock(t) ==
  /\ pc[t] = "lock"
  /\ Op(t) \in ReaderOps
  /\ CanRLock(rw)
  /\ rw' = [rw EXCEPT !.readers = @ \cup {t}]
  /\ Goto(t, "entered")
  /\ UNCHANGED <<mem, sql, last, side, backend, start, call, ctxDone, conn, loc>>

\* mu.Lock(), first half: exclude the other writers and new readers.
Lock(t) ==
  /\ pc[t] = "lock"
  /\ Op(t) \in WriterOps
  /\ CanLock(rw)
  /\ rw' = [rw EXCEPT !.writer = t]
  /\ Goto(t, "drain")
  /\ UNCHANGED <<mem, sql, last, side, backend, start, call, ctxDone, conn, loc>>

\* mu.Lock(), second half: wait until the active readers have left.
LockEnter(t) ==
  /\ pc[t] = "drain"
  /\ CanEnter(rw)
  /\ Goto(t, "entered")
  /\ UNCHANGED <<mem, sql, last, side, backend, start, call, ctxDone, rw, conn, loc>>

\* The deferred mu.RUnlock() / mu.Unlock(), and the return.
Unlock(t) ==
  /\ pc[t] = "unlock"
  /\ rw' = IF Op(t) \in ReaderOps
           THEN [rw EXCEPT !.readers = @ \ {t}]
           ELSE [rw EXCEPT !.writer = 0]
  /\ Goto(t, "done")
  /\ UNCHANGED <<mem, sql, last, side, backend, start, call, ctxDone, conn, loc>>

\* -- in-memory backend --
\* select { case <-ctx.Done(): return ctx.Err(); default: }
\* GetServices and DeleteService then range over the map, in an order the
\* runtime chooses; SaveService has no loop.
MemCheck(t) ==
  /\ backend = "memory"
  /\ pc[t] = "entered"
  /\ Op(t) \in {"GetServices", "SaveService", "DeleteService"}
  /\ IF ctxDone[t]
     THEN /\ loc' = [loc EXCEPT ![t].err = ErrCanceled]
          /\ Goto(t, "unlock")
     ELSE /\ \E order \in IF Op(t) = "SaveService" THEN { <<>> }
                           ELSE Orders(DOMAIN mem) :
               loc' = [loc EXCEPT ![t].todo = order]
          /\ Goto(t, "body")
  /\ UNCHANGED <<mem, sql, last, side, backend, start, call, ctxDone, rw, conn>>

\* Variant: the body examines the context again at each step.
BodyAbortsOnCancel(done) == done

\* Past the select at entry, the bodies of GetServices, SaveService and
\* DeleteService contain no further receive from ctx.Done().
BodyAborts(done) == FALSE

\* return ctx.Err() out of the body (reached by no code path).
MemAbort(t) ==
  /\ loc' = [loc EXCEPT ![t].todo = <<>>, ![t].acc = NoneSeen,
                         ![t].err = ErrCanceled]
  /\ Goto(t, "unlock")

\* GetServices: one iteration of `for key, svc := range m.services`.
MemGetLoop(t) ==
  /\ backend = "memory"
  /\ pc[t] = "body"
  /\ Op(t) = "GetServices"
  /\ loc[t].todo # <<>>
  /\ IF BodyAborts(ctxDone[t])
     THEN MemAbort(t)
     ELSE /\ LET k == Head(loc[t].todo)
             IN loc' = [loc EXCEPT
                          ![t].todo = Tail(@),
                          ![t].acc = IF k \in DOMAIN mem
                                     THEN MemoryScanStep(mem, k, call[t].key, @)
                                     ELSE @]
          /\ UNCHANGED pc
  /\ UNCHANGED <<mem, sql, last, side, backend, start, call, ctxDone, rw, conn>>

\* GetServices: return services, nil
MemGetReturn(t) ==
  /\ backend = "memory"
  /\ pc[t] = "body"
  /\ Op(t) = "GetServices"
  /\ loc[t].todo = <<>>
  /\ loc' = [loc EXCEPT ![t].res = loc[t].acc.services, ![t].acc = NoneSeen,
                         ![t].err = ErrNil]
  /\ Goto(t, "unlock")
  /\ UNCHANGED <<mem, sql, last, side, backend, start, call, ctxDone, rw, conn>>

\* SaveService: the map assignment m.services[service.Key] = svcCopy reads
\* the map ...
MemSaveBegin(t) ==
  /\ backend = "memory"
  /\ pc[t] = "body"
  /\ Op(t) = "SaveService"
  /\ IF BodyAborts(ctxDone[t])
     THEN MemAbort(t)
     ELSE /\ loc' = [loc EXCEPT ![t].tmp = mem]
          /\ Goto(t, "write")
  /\ UNCHANGED <<mem, sql, last, side, backend, start, call, ctxDone, rw, conn>>

\* ... and stores the result; return nil.
MemSaveWrite(t) ==
  /\ backend = "memory"
  /\ pc[t] = "write"
  /\ mem' = MemorySaveService(loc[t].tmp, call[t].svc, FALSE).store
  /\ loc' = [loc EXCEPT ![t].tmp = EmptyStore, ![t].err = ErrNil]
  /\ Goto(t, "unlock")
  /\ UNCHANGED <<sql, last, side, backend, start, call, ctxDone, rw, conn>>

\* DeleteService: one iteration of `for k := range m.services`.
MemDeleteLoop(t) ==
  /\ backend = "memory"
  /\ pc[t] = "body"
  /\ Op(t) = "DeleteService"
  /\ loc[t].todo # <<>>
  /\ IF BodyAborts(ctxDone[t])
     THEN MemAbort(t) /\ UNCHANGED mem
     ELSE /\ LET k == Head(loc[t].todo)
             IN /\ loc' = [loc EXCEPT ![t].todo = Tail(@)]
                /\ mem' = IF MemoryDeleteMatches(k, call[t].key)
                          THEN Without(mem, {k})
                          ELSE mem
          /\ UNCHANGED pc
  /\ UNCHANGED <<sql, last, side, backend, start, call, ctxDone, rw, conn>>

\* DeleteService: return nil
MemDeleteReturn(t) ==
  /\ backend = "memory"
  /\ pc[t] = "body"
  /\ Op(t) = "DeleteService"
  /\ loc[t].todo = <<>>
  /\ loc' = [loc EXCEPT ![t].err = ErrNil]
  /\ Goto(t, "unlock")
  /\ UNCHANGED <<mem, sql, last, side, backend, start, call, ctxDone, rw, conn>>

\* Count, Keys and Snapshot read the map under the read lock.
MemDiagnostic(t) ==
  /\ backend = "memory"
  /\ pc[t] = "entered"
  /\ Op(t) \in {"Count", "Keys", "Snapshot"}
  /\ \E order \in Orders(DOMAIN mem) :
       loc' = [loc EXCEPT
                 ![t].count = IF Op(t) = "Count" THEN MemoryCount(mem) ELSE @,
                 ![t].keys = IF Op(t) = "Keys" THEN MemoryKeys(mem, order) ELSE @,
                 ![t].snap = IF Op(t) = "Snapshot" THEN MemorySnapshot(mem) ELSE @,
                 ![t].err = ErrNil]
  /\ Goto(t, "unlock")
  /\ UNCHANGED <<mem, sql, last, side, backend, start, call, ctxDone, rw, conn>>

\* Clear replaces the map under the write lock.
MemClear(t) ==
  /\ backend = "memory"
  /\ pc[t] = "entered"
  /\ Op(t) = "Clear"
  /\ mem' = MemoryClear(mem)
  /\ loc' = [loc EXCEPT ![t].err = ErrNil]
  /\ Goto(t, "unlock")
  /\ UNCHANGED <<sql, last, side, backend, start, call, ctxDone, rw, conn>>

\* -- embedded-SQL backend --
\* db.QueryContext: fails on a canceled context, else takes the pool's one
\* connection and opens the result rows.
SqlQuery(t) ==
  /\ backend = "sqlite"
  /\ pc[t] = "entered"
  /\ Op(t) \in {"GetServices", "Keys"}
  /\ IF ctxDone[t]
     THEN /\ loc' = [loc EXCEPT ![t].err = ErrCanceled]
          /\ Goto(t, "unlock")
          /\ UNCHANGED conn
     ELSE /\ conn = 0
          /\ conn' = t
          /\ \E order \in Orders(DOMAIN sql) :
               loc' = [loc EXCEPT ![t].todo =
                         IF Op(t) = "Keys" THEN Ascending(DOMAIN sql)
                         ELSE SelectSeq(order,
                                LAMBDA k : SQLiteSelectMatches(k, call[t].key))]
          /\ Goto(t, "rows")
  /\ UNCHANGED <<mem, sql, last, side, backend, start, call, ctxDone, rw>>

\* GetServices: one iteration of `for rows.Next()`.
SqlGetNext(t) ==
  /\ backend = "sqlite"
  /\ pc[t] = "rows"
  /\ Op(t) = "GetServices"
  /\ loc[t].todo # <<>>
  /\ LET k == Head(loc[t].todo)
     IN loc' = [loc EXCEPT
                  ![t].todo = Tail(@),
                  ![t].acc = IF k \in DOMAIN sql
                             THEN SQLiteScanStep(sql, k, @)
                             ELSE @]
  /\ UNCHANGED <<mem, sql, last, side, backend, start, pc, call, ctxDone, rw, conn>>

\* Keys: one iteration of `for rows.Next()`; ORDER BY key delivers the
\* keys in ascending order.
SqlKeysNext(t) ==
  /\ backend = "sqlite"
  /\ pc[t] = "rows"
  /\ Op(t) = "Keys"
  /\ loc[t].todo # <<>>
  /\ loc' = [loc EXCEPT ![t].todo = Tail(@), ![t].keys = Append(@, Head(loc[t].todo))]
  /\ UNCHANGED <<mem, sql, last, side, backend, start, pc, call, ctxDone, rw, conn>>

\* rows.Next() returns false at the end of the rows; rows.Err() is nil.
SqlRowsEnd(t) ==
  /\ backend = "sqlite"
  /\ pc[t] = "rows"
  /\ loc[t].todo = <<>>
  /\ loc' = [loc EXCEPT ![t].res = loc[t].acc.services, ![t].acc = NoneSeen,
                         ![t].err = ErrNil]
  /\ Goto(t, "close")
  /\ UNCHANGED <<mem, sql, last, side, backend, start, call, ctxDone, rw, conn>>

\* A rows.Scan can only follow a rows.Next() that delivered a row.
ScanPending(t) == IF loc[t].todo # <<>> THEN BOOLEAN ELSE {FALSE}

\* The context was canceled while the rows were open: the rows are closed
\* under the loop with the context's error.  Either rows.Next() returns
\* false and rows.Err() that error, or, when the cancellation falls between
\* rows.Next() and rows.Scan, Scan returns it.  GetServices returns nil and
\* the error in both cases; Keys returns nil and the error of Scan, but the
\* keys appended so far with the error of rows.Err().
SqlRowsCanceled(t) ==
  /\ backend = "sqlite"
  /\ pc[t] = "rows"
  /\ ctxDone[t]
  /\ \E inScan \in ScanPending(t) :
       loc' = [loc EXCEPT ![t].res = <<>>,
                          ![t].keys = IF inScan THEN <<>> ELSE @,
                          ![t].todo = <<>>,
                          ![t].acc = NoneSeen, ![t].err = ErrCanceled]
  /\ Goto(t, "close")
  /\ UNCHANGED <<mem, sql, last, side, backend, start, call, ctxDone, rw, conn>>

\* Variant: closing the rows keeps the connection checked out.
KeepConn(holder, t) == holder

\* rows.Close(): the connection goes back to the pool.
ReleaseConn(holder, t) == IF holder = t THEN 0 ELSE holder

\* The deferred rows.Close() gives the connection back.
SqlRowsClose(t) ==
  /\ backend = "sqlite"
  /\ pc[t] = "close"
  /\ conn' = ReleaseConn(conn, t)
  /\ Goto(t, "unlock")
  /\ UNCHANGED <<mem, sql, last, side, backend, start, call, ctxDone, rw, loc>>

\* db.ExecContext of SaveService's upsert or DeleteService's DELETE: fails
\* on a canceled context, else runs the statement on the connection.
SqlExec(t) ==
  /\ backend = "sqlite"
  /\ pc[t] = "entered"
  /\ Op(t) \in {"SaveService", "DeleteService"}
  /\ ~ctxDone[t] => conn = 0
  /\ LET r == IF Op(t) = "SaveService"
              THEN SQLiteSaveService(sql, call[t].svc, ctxDone[t])
              ELSE SQLiteDeleteService(sql, call[t].key, ctxDone[t])
     IN /\ sql' = r.store
        /\ loc' = [loc EXCEPT ![t].err = r.err]
  /\ Goto(t, "unlock")
  /\ UNCHANGED <<mem, last, side, backend, start, call, ctxDone, rw, conn>>

\* Count: db.QueryRowContext("SELECT COUNT(*) ...").Scan(&count)
SqlCount(t) ==
  /\ backend = "sqlite"
  /\ pc[t] = "entered"
  /\ Op(t) = "Count"
  /\ ~ctxDone[t] => conn = 0
  /\ loc' = IF ctxDone[t]
            THEN [loc EXCEPT ![t].err = ErrCanceled]
            ELSE [loc EXCEPT ![t].count = SQLiteCount(sql), ![t].err = ErrNil]
  /\ Goto(t, "unlock")
  /\ UNCHANGED <<mem, sql, last, side, backend, start, call, ctxDone, rw, conn>>

NextConc ==
  \E t \in Threads :
    \/ Invoke(t)
    \/ RLock(t)
    \/ Lock(t)
    \/ LockEnter(t)
    \/ Unlock(t)
    \/ MemCheck(t)
    \/ MemGetLoop(t)
    \/ MemGetReturn(t)
    \/ MemSaveBegin(t)
    \/ MemSaveWrite(t)
    \/ MemDeleteLoop(t)
    \/ MemDeleteReturn(t)
    \/ MemDiagnostic(t)
    \/ MemClear(t)
    \/ SqlQuery(t)
    \/ SqlGetNext(t)
    \/ SqlKeysNext(t)
    \/ SqlRowsEnd(t)
    \/ SqlRowsClose(t)
    \/ SqlExec(t)
    \/ SqlCount(t)

\* Concurrent callers whose contexts are live or canceled before the call.
SpecConc == InitConc /\ [][NextConc]_vars

\* A statement handed to the engine (QueryContext, ExecContext or
\* QueryRowContext) finishes with an error: the call returns that error and
\* nothing was read or written.
SqlStatementFails(t) ==
  /\ backend = "sqlite"
  /\ pc[t] = "entered"
  /\ ~ctxDone[t]
  /\ conn = 0
  /\ loc' = [loc EXCEPT ![t].err = ErrEngine]
  /\ Goto(t, "unlock")
  /\ UNCHANGED <<mem, sql, last, side, backend, start, call, ctxDone, rw, conn>>

\* rows.Scan or rows.Err reports an engine error while the rows are open,
\* and the deferred Close runs.  GetServices returns nil and the error in
\* both cases; Keys returns nil and the error of Scan, but the keys
\* appended so far with the error of rows.Err().
SqlRowsFail(t) ==
  /\ backend = "sqlite"
  /\ pc[t] = "rows"
  /\ \E inScan \in ScanPending(t) :
       loc' = [loc EXCEPT ![t].res = <<>>,
                          ![t].keys = IF inScan THEN <<>> ELSE @,
                          ![t].todo = <<>>,
                          ![t].acc = NoneSeen, ![t].err = ErrEngine]
  /\ Goto(t, "close")
  /\ UNCHANGED <<mem, sql, last, side, backend, start, call, ctxDone, rw, conn>>

\* The same callers, with contexts that may also be canceled during a call.
NextCancel ==
  \/ NextConc
  \/ \E t \in Threads : Cancel(t)
  \/ \E t \in Threads : SqlRowsCanceled(t)

SpecCancel == InitConc /\ [][NextCancel]_vars

\* ---- the in-memory backend, contexts canceled at any moment ----
InitMemCancel ==
  /\ InitFrom({EmptyStore, SeedStore})
  /\ backend = "memory"

\* Calls of the three operations that take a context.
CancelCalls(b, t) ==
  { c \in ConcCalls(b, t) :
      c.op \in {"GetServices", "SaveService", "DeleteService"} }

NextMemCancel ==
  \E t \in Threads :
    \/ InvokeFrom(t, CancelCalls(backend, t))
    \/ Cancel(t)
    \/ RLock(t)
    \/ Lock(t)
    \/ LockEnter(t)
    \/ Unlock(t)
    \/ MemCheck(t)
    \/ MemGetLoop(t)
    \/ MemGetReturn(t)
    \/ MemSaveBegin(t)
    \/ MemSaveWrite(t)
    \/ MemDeleteLoop(t)
    \/ MemDeleteReturn(t)

SpecMemCancel == InitMemCancel /\ [][NextMemCancel]_vars

\* The steps of caller t that the scheduler and the engine eventually take:
\* everything but starting the call, cancelling, and failing.
Progress(t) ==
  \/ RLock(t) \/ Lock(t) \/ LockEnter(t) \/ Unlock(t)
  \/ MemCheck(t) \/ MemGetLoop(t) \/ MemGetReturn(t)
  \/ MemSaveBegin(t) \/ MemSaveWrite(t)
  \/ MemDeleteLoop(t) \/ MemDeleteReturn(t)
  \/ MemDiagnostic(t) \/ MemClear(t)
  \/ SqlQuery(t) \/ SqlGetNext(t) \/ SqlKeysNext(t) \/ SqlRowsEnd(t)
  \/ SqlRowsClose(t) \/ SqlExec(t) \/ SqlCount(t)

\* Every way a call can run: started on a store of one record, with a
\* context canceled before or during the call, on an engine whose
\* statements may fail.
NextLive ==
  \/ \E t \in Threads : InvokeFrom(t, LiveCalls(backend, t))
  \/ \E t \in Threads : Progress(t)
  \/ \E t \in Threads : Cancel(t)
  \/ \E t \in Threads : SqlRowsCanceled(t)
  \/ \E t \in Threads : SqlStatementFails(t)
  \/ \E t \in Threads : SqlRowsFail(t)

\* Fair scheduling of the goroutines and an engine that finishes each
\* statement: a step of a caller that stays possible is eventually taken.
SpecLive ==
  InitFrom({OneRecord}) /\ [][NextLive]_vars
    /\ \A t \in Threads : WF_vars(Progress(t))

(***************************************************************************)
(* Vocabulary of the properties, stated on strings directly.               *)
(***************************************************************************)
\* p is a literal string prefix of k: k is p followed by some suffix.
IsLiteralPrefix(p, k) ==
  \E n \in 0..Len(k) : p = [i \in 1..n |-> k[i]]

\* k is K + "/" + suffix for some (possibly empty) suffix.
IsBelow(k, K) ==
  /\ Len(k) > Len(K)
  /\ \A i \in 1..Len(K) : k[i] = K[i]
  /\ k[Len(K) + 1] = "/"

\* The keys of the records in a GetServices result.
ResultKeys(res) == { res[i].Key : i \in 1..Len(res) }

\* Number of records of a result that carry the key k.
Occurrences(res, k) == Cardinality({ i \in 1..Len(res) : res[i].Key = k })

\* The records of a result, as a set.
ResultSet(res) == { res[i] : i \in 1..Len(res) }

\* r agrees with the saved record s in every field but Priority.
SameButPriority(r, s) == [r EXCEPT !.Priority = 0] = [s EXCEPT !.Priority = 0]

Ka == <<"/", "a">>
Kab == <<"/", "a", "b">>
Kchild == <<"/", "a", "/", "b">>

(***************************************************************************)
(* C1..C8: sequential behaviour of the two backends                        *)
(***************************************************************************)
\* C1: in-memory GetServices(P) with a live context returns no error and
\* exactly one record for each stored key that has P as a literal string
\* prefix (no segment boundary needed), carrying the stored content, and no
\* record for any other key.
C1_MemGetLiteralPrefix ==
  (last.op = "GetServices" /\ ~last.canceled) =>
    /\ last.memErr = ErrNil
    /\ \A k \in DOMAIN mem :
         Occurrences(last.memRes, k) = IF IsLiteralPrefix(last.key, k) THEN 1 ELSE 0
    /\ ResultKeys(last.memRes) \subseteq DOMAIN mem
    /\ \A i \in 1..Len(last.memRes) :
         SameButPriority(last.memRes[i],
                         [mem[last.memRes[i].Key] EXCEPT !.Key = last.memRes[i].Key])

\* C1 witness: GetServices("/a") returned "/a", "/a/b" and also "/ab".
C1_Witness ==
  /\ last.op = "GetServices" /\ ~last.canceled
  /\ last.key = Ka
  /\ ResultKeys(last.memRes) = {Ka, Kab, Kchild}

\* C2: in-memory DeleteService(K) with a live context removes exactly the
\* record at K and every record at K + "/" + suffix, and leaves every other
\* record present and unchanged.
C2_MemDeleteExact ==
  (last.op = "DeleteService" /\ ~last.canceled) =>
    /\ last.memErr = ErrNil
    /\ DOMAIN mem =
         { k \in DOMAIN last.memPre : ~(k = last.key \/ IsBelow(k, last.key)) }
    /\ \A k \in DOMAIN mem : mem[k] = last.memPre[k]

\* C2 witness: DeleteService("/a") on a store holding all three keys removed
\* "/a" and "/a/b" and kept "/ab".
C2_Witness ==
  /\ last.op = "DeleteService" /\ ~last.canceled
  /\ last.key = Ka
  /\ DOMAIN last.memPre = {Ka, Kab, Kchild}
  /\ DOMAIN mem = {Kab}

\* C3 (as claimed): embedded-SQL DeleteService(K) removes exactly the row at
\* K and every row at K + "/" + suffix as literal strings, and leaves every
\* other row in place.
C3_SqlDeleteExact ==
  (last.op = "DeleteService" /\ ~last.canceled) =>
    /\ last.sqlErr = ErrNil
    /\ DOMAIN sql =
         { k \in DOMAIN last.sqlPre : ~(k = last.key \/ IsBelow(k, last.key)) }
    /\ \A k \in DOMAIN sql : sql[k] = last.sqlPre[k]

\* C4 (as claimed): embedded-SQL GetServices(P) returns exactly one record
\* for each stored key that starts with the literal string P, and no record
\* for any other key.
C4_SqlGetLiteralPrefix ==
  (last.op = "GetServices" /\ ~last.canceled) =>
    /\ last.sqlErr = ErrNil
    /\ \A k \in DOMAIN sql :
         Occurrences(last.sqlRes, k) = IF IsLiteralPrefix(last.key, k) THEN 1 ELSE 0
    /\ ResultKeys(last.sqlRes) \subseteq DOMAIN sql

\* C5 (as claimed): started empty and given the same SaveService and
\* DeleteService calls, the two backends return the same set of records from
\* every GetServices and agree on key listing and count after every step.
C5_BackendsEquivalent ==
  /\ (last.op = "GetServices" /\ ~last.canceled) =>
       ResultSet(last.memRes) = ResultSet(last.sqlRes)
  /\ MemoryKeys(mem, Ascending(DOMAIN mem)) = SQLiteKeys(sql)
  /\ MemoryCount(mem) = SQLiteCount(sql)

\* What GetServices(K) returns for key K right after a save, per backend.
MemReadBack(K) ==
  { r \in ResultSet(MemoryGetServices(mem, K, FALSE, Ascending(DOMAIN mem)).res) :
      r.Key = K }

SqlReadBack(K) ==
  { r \in ResultSet(SQLiteGetServices(sql, K, FALSE, Ascending(DOMAIN sql)).res) :
      r.Key = K }

\* Count effect of a successful save in both backends: unchanged for a
\* stored key, plus one for a new key.
SaveCountEffect ==
  /\ Cardinality(DOMAIN mem) = Cardinality(DOMAIN last.memPre)
       + (IF last.key \in DOMAIN last.memPre THEN 0 ELSE 1)
  /\ Cardinality(DOMAIN sql) = Cardinality(DOMAIN last.sqlPre)
       + (IF last.key \in DOMAIN last.sqlPre THEN 0 ELSE 1)

\* C6 (as claimed): after a successful SaveService the count is unchanged
\* for a stored key and one more for a new key, and GetServices returns for
\* that key a single record equal to the saved one in every field, zero
\* fields included.
C6_SaveReplacesWhole ==
  (last.op = "SaveService" /\ ~last.canceled) =>
    /\ SaveCountEffect
    /\ MemReadBack(last.key) = {last.svc}
    /\ SqlReadBack(last.key) = {last.svc}

\* C6 (amended): as above, except that a zero Priority reads back as 10;
\* every other field, zero or not, is that of the newly saved record.
C6_SaveReplacesWholeButPriority ==
  (last.op = "SaveService" /\ ~last.canceled) =>
    /\ SaveCountEffect
    /\ Cardinality(MemReadBack(last.key)) = 1
    /\ Cardinality(SqlReadBack(last.key)) = 1
    /\ \A r \in MemReadBack(last.key) \cup SqlReadBack(last.key) :
         /\ SameButPriority(r, last.svc)
         /\ r.Priority = IF last.svc.Priority = 0 THEN 10 ELSE last.svc.Priority

\* C6 witness: a fully populated record stored under "/a" was overwritten
\* by a record whose optional fields are all zero.
C6_Witness ==
  /\ last.op = "SaveService" /\ ~last.canceled
  /\ last.key = Ka
  /\ Ka \in DOMAIN last.memPre /\ Ka \in DOMAIN last.sqlPre
  /\ last.memPre[Ka].Port = 8080 /\ last.sqlPre[Ka].port = 8080
  /\ last.svc.Port = 0 /\ last.svc.Text = ""
  /\ Cardinality(DOMAIN mem) = 3

\* C7: a record saved with Priority 0 reads back with Priority 10 and one
\* saved with a nonzero Priority reads back with that Priority, in both
\* backends; no GetServices result has Priority 0.
C7_PriorityReadBack ==
  /\ (last.op = "SaveService" /\ ~last.canceled) =>
       \A r \in MemReadBack(last.key) \cup SqlReadBack(last.key) :
         r.Priority = IF last.svc.Priority = 0 THEN 10 ELSE last.svc.Priority
  /\ (last.op = "SaveService" /\ ~last.canceled) =>
       MemReadBack(last.key) # {} /\ SqlReadBack(last.key) # {}
  /\ last.op = "GetServices" =>
       \A r \in ResultSet(last.memRes) \cup ResultSet(last.sqlRes) : r.Priority # 0

\* C7 witness: a GetServices whose results, from both backends, hold a
\* defaulted Priority 10 next to a saved nonzero Priority.
C7_Witness ==
  /\ last.op = "GetServices" /\ ~last.canceled
  /\ \E r \in ResultSet(last.memRes) : r.Priority = 10 /\ mem[r.Key].Priority = 0
  /\ \E r \in ResultSet(last.sqlRes) : r.Priority = 10 /\ sql[r.Key].priority = 0
  /\ \E r \in ResultSet(last.memRes) : r.Priority = 1
  /\ \E r \in ResultSet(last.sqlRes) : r.Priority = 1

\* C8: in-memory GetServices, SaveService and DeleteService called with an
\* already canceled context return the cancellation error (GetServices with
\* no records) and leave the store exactly as it was.
C8_MemCanceledNoEffect ==
  (last.op \in {"GetServices", "SaveService", "DeleteService"} /\ last.canceled) =>
    /\ last.memErr = ErrCanceled
    /\ last.memRes = <<>>
    /\ mem = last.memPre

\* C8 witness: a canceled SaveService of a key that was not stored (and is
\* still not stored) in a store where a canceled delete would have matched.
C8_Witness ==
  /\ last.op = "SaveService" /\ last.canceled
  /\ last.key = Ka
  /\ DOMAIN mem = {Kab, Kchild}

(***************************************************************************)
(* C9, C10: concurrent callers                                             *)
(***************************************************************************)
AllDone == \A t \in Threads : pc[t] = "done"

Savers == { t \in Threads : Op(t) = "SaveService" }

\* The callers are N savers on N distinct keys, and GetServices callers,
\* all with live contexts, on a backend that started empty.
DistinctSavesAndReads ==
  /\ start = EmptyStore
  /\ \A t \in Threads : Op(t) \in {"SaveService", "GetServices"} /\ ~ctxDone[t]
  /\ \A t, u \in Savers : t # u => call[t].key # call[u].key

StoredCount ==
  IF backend = "memory" THEN MemoryCount(mem) ELSE SQLiteCount(sql)

ReadBack(K) == IF backend = "memory" THEN MemReadBack(K) ELSE SqlReadBack(K)

\* C9: when N concurrent SaveService calls on N distinct keys, interleaved
\* with each other and with GetServices calls, have all returned, each
\* returned success, the record count is N, and each of the N records is
\* retrievable with the content that was saved.
C9_NoLostUpdate ==
  (AllDone /\ DistinctSavesAndReads) =>
    /\ \A t \in Threads : loc[t].err = ErrNil
    /\ StoredCount = Cardinality(Savers)
    /\ \A t \in Savers : ReadBack(call[t].key) = {call[t].svc}

\* C9 witness: two savers on distinct keys have both returned from the
\* in-memory backend.
C9_Witness ==
  /\ AllDone /\ DistinctSavesAndReads
  /\ backend = "memory"
  /\ Cardinality(Savers) >= 2
  /\ StoredCount = Cardinality(Savers)

\* A caller is inside its critical section from the moment its lock call
\* returns until its deferred unlock runs.
Inside(t) == pc[t] \in {"entered", "body", "write", "rows", "close", "unlock"}

\* C10: at most one writer is inside its critical section, and while a
\* writer is inside no reader and no other writer is inside.
C10_LockDiscipline ==
  \A t, u \in Threads :
    (t # u /\ Inside(t) /\ Op(t) \in WriterOps) => ~Inside(u)

\* C10 witness: two readers are inside at the same time, both in the middle
\* of GetServices' loop.
C10_Witness ==
  \E t, u \in Threads :
    /\ t # u
    /\ Inside(t) /\ Inside(u)
    /\ Op(t) = "GetServices" /\ Op(u) = "GetServices"
    /\ pc[t] = "body" /\ pc[u] = "body"
    /\ loc[t].acc.services # <<>>

(***************************************************************************)
(* C12..C15: algebraic properties of the sequential operations             *)
(***************************************************************************)
\* The literal string prefixes of k, from the empty string to k itself.
PrefixesOf(k) == { SubSeq(k, 1, n) : n \in 0..Len(k) }

\* The stored keys that literally match DeleteService(K): K and K + "/" + ...
LiteralDeleteMatches(store, K) ==
  { k \in DOMAIN store : k = K \/ IsBelow(k, K) }

\* The stored keys that have P as a literal string prefix.
LiteralGetMatches(store, P) ==
  { k \in DOMAIN store : IsLiteralPrefix(P, k) }

\* C12: a successful SaveService of a record whose Key already holds
\* exactly that content (the state a first identical save leaves) returns
\* no error and leaves the store as it was, in both backends: the count is
\* the same and GetServices returns the same single record for the key.
C12_SaveIdempotent ==
  (last.op = "SaveService" /\ ~last.canceled) =>
    /\ (/\ last.key \in DOMAIN last.memPre
        /\ last.memPre[last.key] = [last.svc EXCEPT !.Key = <<>>])
         => /\ last.memErr = ErrNil
            /\ mem = last.memPre
            /\ MemoryCount(mem) = MemoryCount(last.memPre)
            /\ MemReadBack(last.key) = {DefaultPriority(last.svc)}
    /\ (/\ last.key \in DOMAIN last.sqlPre
        /\ last.sqlPre[last.key] = Marshal(last.svc))
         => /\ last.sqlErr = ErrNil
            /\ sql = last.sqlPre
            /\ SQLiteCount(sql) = SQLiteCount(last.sqlPre)
            /\ SqlReadBack(last.key) = {DefaultPriority(last.svc)}

\* C12 witness: the record under "/a" was saved again with identical
\* content in both backends, next to another stored record.
C12_Witness ==
  /\ last.op = "SaveService" /\ ~last.canceled
  /\ last.key = Ka
  /\ Ka \in DOMAIN last.memPre /\ Ka \in DOMAIN last.sqlPre
  /\ last.memPre[Ka] = [last.svc EXCEPT !.Key = <<>>]
  /\ last.sqlPre[Ka] = Marshal(last.svc)
  /\ Cardinality(DOMAIN mem) >= 2 /\ Cardinality(DOMAIN sql) >= 2

\* C13 (as claimed): with a live context DeleteService(K) returns no error
\* in both backends; when no stored key is K or K + "/" + suffix the store
\* is left unchanged; and a second DeleteService(K) right after the first
\* changes nothing.
C13_DeleteIdempotent ==
  (last.op = "DeleteService" /\ ~last.canceled) =>
    /\ last.memErr = ErrNil /\ last.sqlErr = ErrNil
    /\ LiteralDeleteMatches(last.memPre, last.key) = {} => mem = last.memPre
    /\ LiteralDeleteMatches(last.sqlPre, last.key) = {} => sql = last.sqlPre
    /\ MemoryDeleteService(mem, last.key, FALSE).store = mem
    /\ SQLiteDeleteService(sql, last.key, FALSE).store = sql

\* C14 (as claimed): GetServices(P) with a live context returns, in both
\* backends, as many records as there are stored keys with prefix P, each
\* such key exactly once, so that records equal in Host, Port, Priority,
\* Weight and Text under different keys are all returned.
C14_DedupHidesNothing ==
  (last.op = "GetServices" /\ ~last.canceled) =>
    /\ Len(last.memRes) = Cardinality(LiteralGetMatches(mem, last.key))
    /\ Len(last.sqlRes) = Cardinality(LiteralGetMatches(sql, last.key))
    /\ \A k \in LiteralGetMatches(mem, last.key) : Occurrences(last.memRes, k) = 1
    /\ \A k \in LiteralGetMatches(sql, last.key) : Occurrences(last.sqlRes, k) = 1

\* C15: after a successful SaveService of a record with nonzero Priority,
\* GetServices on every literal prefix of its Key - in either backend and
\* whatever order the store is scanned in - returns exactly one record with
\* that Key, equal to the saved record in every field.
C15_RoundTrip ==
  (last.op = "SaveService" /\ ~last.canceled /\ last.svc.Priority # 0) =>
    \A P \in PrefixesOf(last.key) :
      /\ \A order \in Orders(DOMAIN mem) :
           LET r == MemoryGetServices(mem, P, FALSE, order)
           IN /\ r.err = ErrNil
              /\ { x \in ResultSet(r.res) : x.Key = last.key } = {last.svc}
              /\ Occurrences(r.res, last.key) = 1
      /\ \A order \in Orders(DOMAIN sql) :
           LET r == SQLiteGetServices(sql, P, FALSE, order)
           IN /\ r.err = ErrNil
              /\ { x \in ResultSet(r.res) : x.Key = last.key } = {last.svc}
              /\ Occurrences(r.res, last.key) = 1

\* C15 witness: a fully populated record with Priority 1 was saved under
\* "/a/b" next to two other records, so that its prefixes "/a" and "/a/"
\* select different sets of records.
C15_Witness ==
  /\ last.op = "SaveService" /\ ~last.canceled
  /\ last.key = Kchild
  /\ last.svc.Priority = 1 /\ last.svc.Mail /\ last.svc.TTL = 3600
  /\ last.svc.TargetStrip = 1 /\ last.svc.Group = "mygroup"
  /\ DOMAIN mem = {Ka, Kab, Kchild} /\ DOMAIN sql = {Ka, Kab, Kchild}

(***************************************************************************)
(* C16..C18: the backend selector                                          *)
(***************************************************************************)
\* The alias spellings GetBackendType recognises, in lower case.
Aliases ==
  { <<"e", "t", "c", "d">>, <<"s", "q", "l", "i", "t", "e">>, <<"s", "q", "l", "i", "t", "e", "3">>, <<"m", "e", "m", "o", "r", "y">>, <<"m", "e", "m">>, <<"i", "n", "m", "e", "m", "o", "r", "y">>, <<"i", "n", "-", "m", "e", "m", "o", "r", "y">> }

\* s spells t up to the case of its letters.
EqualFold(s, t) ==
  /\ Len(s) = Len(t)
  /\ \A i \in 1..Len(s) : s[i] = t[i] \/ ToUpperChar(s[i]) = ToUpperChar(t[i])

IsAlias(v) == \E a \in Aliases : EqualFold(v, a)

\* C16 (as claimed): for a non-empty COREDNS_BACKEND that spells no alias,
\* GetBackendType returns the value character for character, and never the
\* default type.
C16_UnknownVerbatim ==
  (/\ sel.op = "GetBackendType"
   /\ Getenv(env, "COREDNS_BACKEND") # <<>>
   /\ ~IsAlias(Getenv(env, "COREDNS_BACKEND")))
    => /\ sel.type = Getenv(env, "COREDNS_BACKEND")
       /\ sel.type # BackendTypeEtcd

\* C17: GetBackendType gives etcd for an unset or empty COREDNS_BACKEND and
\* for every spelling of "etcd", sqlite for every spelling of "sqlite" and
\* "sqlite3", and memory for every spelling of "memory", "mem", "inmemory"
\* and "in-memory".
C17_AliasesResolved ==
  sel.op = "GetBackendType" =>
    LET v == Getenv(env, "COREDNS_BACKEND")
    IN /\ (~env.COREDNS_BACKEND.set \/ v = <<>> \/ EqualFold(v, <<"e", "t", "c", "d">>))
            => sel.type = BackendTypeEtcd
       /\ (EqualFold(v, <<"s", "q", "l", "i", "t", "e">>) \/ EqualFold(v, <<"s", "q", "l", "i", "t", "e", "3">>))
            => sel.type = BackendTypeSQLite
       /\ (\/ EqualFold(v, <<"m", "e", "m", "o", "r", "y">>) \/ EqualFold(v, <<"m", "e", "m">>)
           \/ EqualFold(v, <<"i", "n", "m", "e", "m", "o", "r", "y">>) \/ EqualFold(v, <<"i", "n", "-", "m", "e", "m", "o", "r", "y">>))
            => sel.type = BackendTypeMemory

\* C17 witness: the mixed-case spelling "In-Memory" was resolved to memory.
C17_Witness ==
  /\ sel.op = "GetBackendType"
  /\ Getenv(env, "COREDNS_BACKEND") = <<"I", "n", "-", "M", "e", "m", "o", "r", "y">>
  /\ sel.type = BackendTypeMemory

CanonicalTypes == { BackendTypeEtcd, BackendTypeSQLite, BackendTypeMemory }

\* C18: NewBackend with a non-nil configuration returns ErrUnknownBackend
\* exactly when cfg.Type is none of "etcd", "sqlite", "memory" as written,
\* and then returns no backend; aliases, other spellings and the empty Type
\* are rejected; Type "memory" gives an empty in-memory backend and no error.
C18_UnknownTypeRejected ==
  (sel.op = "NewBackend" /\ ~sel.cfg.nil) =>
    /\ (sel.res.err = ErrUnknownBackend) <=> (sel.cfg.Type \notin CanonicalTypes)
    /\ sel.res.err = ErrUnknownBackend => sel.res.kind = "nil"
    /\ sel.cfg.Type = BackendTypeMemory =>
         (sel.res.kind = "memory" /\ sel.res.err = ErrNil /\ sel.res.count = 0)

\* C18 witness: with COREDNS_BACKEND set to "memory", a configuration of
\* Type "mem" (an alias of the environment variable) was rejected.
C18_Witness ==
  /\ sel.op = "NewBackend" /\ ~sel.cfg.nil
  /\ sel.cfg.Type = <<"m", "e", "m">>
  /\ Getenv(env, "COREDNS_BACKEND") = <<"m", "e", "m", "o", "r", "y">>
  /\ sel.res.err = ErrUnknownBackend /\ sel.res.kind = "nil"

(***************************************************************************)
(* C19: independence of the diagnostic results                             *)
(***************************************************************************)
\* C19: the live map holds exactly what SaveService, DeleteService and
\* Clear have stored, whatever the caller did to a snapshot or key list it
\* holds; and a snapshot or key list the caller holds contains exactly what
\* it was returned with plus the caller's own changes, whatever the backend
\* stored, deleted or cleared since.
C19_DiagnosticCopies ==
  /\ diag.heap[diag.services] = mem
  /\ MemoryCount(diag.heap[diag.services]) = MemoryCount(mem)
  /\ diag.snap # NoRef =>
       (diag.snap # diag.services /\ diag.heap[diag.snap] = diag.snapShadow)
  /\ diag.keys # NoRef => diag.heap[diag.keys] = diag.keysShadow

\* C19 witness: the caller holds a snapshot with an entry of its own under
\* "/a" and a key list it has overwritten, while the store, changed since by
\* the backend, holds only the record "/ab".
C19_Witness ==
  /\ diag.snap # NoRef /\ diag.keys # NoRef
  /\ Ka \in DOMAIN diag.heap[diag.snap]
  /\ diag.heap[diag.snap][Ka] = ForeignValue
  /\ Kchild \in DOMAIN diag.heap[diag.snap]
  /\ diag.heap[diag.keys] = <<ForeignKey, Kab>>
  /\ DOMAIN diag.heap[diag.services] = {Kab}
  /\ diag.heap[diag.services][Kab].Host = "1.2.3.4"

(***************************************************************************)
(* C20: key listing and count                                              *)
(***************************************************************************)
\* The list is strictly ascending in byte order (hence without repeats).
StrictlyAscending(keys) ==
  \A i, j \in 1..Len(keys) : i < j => StringLess(keys[i], keys[j])

\* The list holds exactly the keys of the store.
ListsKeysOf(keys, store) ==
  { keys[i] : i \in 1..Len(keys) } = DOMAIN store

\* C20: in both backends Keys returns the stored keys, each once, in
\* ascending order, and as many of them as Count returns, after any sequence
\* of saves and deletes.
C20_KeysSortedAndCounted ==
  /\ last.op = "Keys" =>
       /\ ListsKeysOf(last.keys, mem) /\ StrictlyAscending(last.keys)
       /\ ListsKeysOf(last.sqlKeys, sql) /\ StrictlyAscending(last.sqlKeys)
       /\ Len(last.keys) = MemoryCount(mem)
       /\ Len(last.sqlKeys) = SQLiteCount(sql)
  /\ last.op = "Count" =>
       /\ last.count = Cardinality(DOMAIN mem)
       /\ last.sqlCount = Cardinality(DOMAIN sql)

\* C20 witness: Keys listed "/a", "/a/b", "/ab" in that order in both
\* backends.
C20_Witness ==
  /\ last.op = "Keys"
  /\ last.keys = <<Ka, Kchild, Kab>>
  /\ last.sqlKeys = <<Ka, Kchild, Kab>>

(***************************************************************************)
(* C21: persistence of the embedded-SQL backend across a restart           *)
(***************************************************************************)
\* The records GetServices presents for a set of saved records: each as it
\* was saved, a zero Priority shown as the default.
Presented(saved, prefix) ==
  { DefaultPriority(saved[k]) : k \in { x \in DOMAIN saved : HasPrefix(x, prefix) } }

\* C21: every database file holds exactly the records saved into it and
\* not deleted since, whatever backends were opened and closed on it or on
\* other paths; a backend opened on a file sees that file's table; and its
\* GetServices returns exactly those records, each as it was saved.
C21_RestartPersistence ==
  /\ \A p \in FilePaths :
       /\ DOMAIN disk.files[p] = DOMAIN disk.saved[p]
       /\ \A k \in DOMAIN disk.files[p] :
            Unmarshal(disk.files[p][k]) = [ok |-> TRUE, svc |-> disk.saved[p][k]]
  /\ disk.open \in FilePaths => sql = disk.files[disk.open]
  /\ (last.op = "GetServices" /\ disk.open \in FilePaths) =>
       /\ last.sqlErr = ErrNil
       /\ ResultSet(last.sqlRes) = Presented(disk.saved[disk.open], last.key)
       /\ Len(last.sqlRes) = Cardinality(Presented(disk.saved[disk.open], last.key))

\* C21 witness: a backend opened on a file that already held records
\* returned the record saved under "/a/b" before the restart, while "/a",
\* deleted before the restart, is not in the file; the other file holds
\* different records.
C21_Witness ==
  /\ disk.open = "/data/dns.db" /\ disk.reopened
  /\ last.op = "GetServices" /\ last.key = <<>>
  /\ ResultKeys(last.sqlRes) = {Kchild}
  /\ DOMAIN disk.files["/tmp/test.db"] = {Ka}

(***************************************************************************)
(* C22: undecodable rows                                                   *)
(***************************************************************************)
\* The rows the SELECT of GetServices delivers for `prefix`.
SelectedRows(table, prefix) ==
  { k \in DOMAIN table : SQLiteSelectMatches(k, prefix) }

Decodes(table, k) == Unmarshal(table[k]).ok

\* C22: a GetServices of the embedded-SQL backend on an uncanceled context
\* returns no error whatever the selected rows hold, and returns, once
\* each, exactly the records of the selected rows that decode (under the
\* row's key, a zero Priority shown as the default); no record is
\* returned for a row that does not decode.
C22_UndecodableSkipped ==
  (last.op = "GetServices" /\ ~last.canceled) =>
    LET good == { k \in SelectedRows(sql, last.key) : Decodes(sql, k) }
    IN /\ last.sqlErr = ErrNil
       /\ ResultSet(last.sqlRes) =
            { DefaultPriority([Unmarshal(sql[k]).svc EXCEPT !.Key = k]) : k \in good }
       /\ Len(last.sqlRes) = Cardinality(good)
       /\ \A k \in SelectedRows(sql, last.key) :
            ~Decodes(sql, k) => k \notin ResultKeys(last.sqlRes)

\* C22 witness: of three selected rows the one under "/a/b" does not
\* decode, and the call returned the other two without error.
C22_Witness ==
  /\ last.op = "GetServices" /\ ~last.canceled /\ last.key = Ka
  /\ DOMAIN sql = KeySpace
  /\ ~Decodes(sql, Kchild)
  /\ last.sqlErr = ErrNil
  /\ ResultKeys(last.sqlRes) = KeySpace \ {Kchild}

(***************************************************************************)
(* C23: nothing matches                                                    *)
(***************************************************************************)
NoKeyHasPrefix(store, prefix) ==
  \A k \in DOMAIN store : ~IsLiteralPrefix(prefix, k)

\* C23 (as claimed): a GetServices on an uncanceled context with a prefix
\* that no stored key has returns an empty list and no error, in either
\* backend and whatever calls came before.
C23_EmptyWhenNothingMatches ==
  (last.op = "GetServices" /\ ~last.canceled) =>
    /\ NoKeyHasPrefix(mem, last.key) =>
         (last.memRes = <<>> /\ last.memErr = ErrNil)
    /\ NoKeyHasPrefix(sql, last.key) =>
         (last.sqlRes = <<>> /\ last.sqlErr = ErrNil)

(***************************************************************************)
(* C24: the in-memory backend examines the context once                    *)
(***************************************************************************)
ContextOps == {"GetServices", "SaveService", "DeleteService"}

\* What the call of caller t has done when it has run in full.
FullEffect(t) ==
  /\ loc[t].err = ErrNil
  /\ Op(t) = "SaveService" =>
       /\ call[t].key \in DOMAIN mem
       /\ mem[call[t].key] = [call[t].svc EXCEPT !.Key = <<>>]
  /\ Op(t) = "DeleteService" =>
       \A k \in DOMAIN mem : k # call[t].key /\ ~IsBelow(k, call[t].key)
  /\ Op(t) = "GetServices" =>
       LET hit == { k \in DOMAIN mem : IsLiteralPrefix(call[t].key, k) }
       IN /\ ResultSet(loc[t].res) =
               { DefaultPriority([mem[k] EXCEPT !.Key = k]) : k \in hit }
          /\ Len(loc[t].res) = Cardinality(hit)

\* C24: a call of the in-memory backend that finds its context canceled
\* at the entry check returns the context's error and changes nothing;
\* a call that passed the entry check returns, whether or not its context
\* is canceled afterwards, with no error and its full effect (the record
\* stored, the whole subtree removed, every matching record returned).
C24_ContextCheckedOnce ==
  [][\A t \in Threads :
       /\ (pc[t] = "entered" /\ Op(t) \in ContextOps /\ pc'[t] # "entered") =>
            IF ctxDone[t]
            THEN pc'[t] = "unlock" /\ loc'[t].err = ErrCanceled /\ mem' = mem
            ELSE pc'[t] = "body"
       /\ (pc[t] \in {"body", "write"} /\ pc'[t] = "unlock") => FullEffect(t)'
    ]_vars

\* C24 witness: a DeleteService("/a") whose context was canceled after the
\* entry check is about to return nil, and "/a" and "/a/b" are both gone;
\* "/ab" is still stored.
C24_Witness ==
  \E t \in Threads :
    /\ pc[t] = "unlock" /\ Op(t) = "DeleteService" /\ call[t].key = Ka
    /\ ctxDone[t] /\ loc[t].err = ErrNil
    /\ start = SeedStore
    /\ \A u \in Threads \ {t} : pc[u] = "idle"
    /\ DOMAIN mem = {Kab}

(***************************************************************************)
(* C25: retrieval after deletion                                           *)
(***************************************************************************)
\* The keys GetServices(prefix) would return now, per backend.
MemGetKeys(prefix) ==
  ResultKeys(MemoryGetServices(mem, prefix, FALSE, Ascending(DOMAIN mem)).res)

SqlGetKeys(prefix) ==
  ResultKeys(SQLiteGetServices(sql, prefix, FALSE, Ascending(DOMAIN sql)).res)

\* The stored keys that have K as a string prefix not followed by "/".
LooseMatches(store, K) ==
  { k \in DOMAIN store : IsLiteralPrefix(K, k) /\ k # K /\ ~IsBelow(k, K) }

\* C25 (as claimed): right after a successful DeleteService(K), in either
\* backend, GetServices(K + "/") is empty, no stored key equals K, and
\* GetServices(K) returns exactly the stored records whose key has K as a
\* string prefix not followed by "/".
C25_GetAfterDelete ==
  (last.op = "DeleteService" /\ ~last.canceled) =>
    /\ last.memErr = ErrNil /\ last.sqlErr = ErrNil
    /\ MemGetKeys(last.key \o <<"/">>) = {}
    /\ SqlGetKeys(last.key \o <<"/">>) = {}
    /\ last.key \notin DOMAIN mem
    /\ last.key \notin DOMAIN sql
    /\ MemGetKeys(last.key) = LooseMatches(mem, last.key)
    /\ SqlGetKeys(last.key) = LooseMatches(sql, last.key)

(***************************************************************************)
(* C26: reads change nothing                                               *)
(***************************************************************************)
ReadCalls == {"GetServices", "Count", "Keys", "Snapshot"}

\* The Priority GetServices presents for a stored Priority.
PresentedPriority(p) == IF p = 0 THEN priority ELSE p

\* The record of a GetServices result is the stored one, Priority apart.
PresentsStored(res, stored) ==
  \A i \in 1..Len(res) :
    /\ res[i].Key \in DOMAIN stored
    /\ SameButPriority(res[i], [stored[res[i].Key] EXCEPT !.Key = res[i].Key])
    /\ res[i].Priority = PresentedPriority(stored[res[i].Key].Priority)

\* The records of the embedded-SQL table.
Decoded(table) == [k \in DOMAIN table |-> Unmarshal(table[k]).svc]

\* What holds of every step, the reads apart from Snapshot.
ReadsLeaveStore ==
  /\ last'.op \in ReadCalls => (mem' = mem /\ sql' = sql)
  /\ (last'.op = "SaveService" /\ ~last'.canceled) =>
       /\ mem'[last'.key].Priority = last'.svc.Priority
       /\ Decoded(sql')[last'.key].Priority = last'.svc.Priority
  /\ (last'.op = "GetServices" /\ ~last'.canceled) =>
       /\ PresentsStored(last'.memRes, mem')
       /\ PresentsStored(last'.sqlRes, Decoded(sql'))

\* C26 (as claimed): no read operation changes the store; a record saved
\* with Priority 0 is stored with Priority 0 and stays so; and every read
\* operation that returns records - GetServices of either backend and
\* Snapshot - shows a stored Priority 0 as 10.
C26_ReadsPresentDefault ==
  [][/\ ReadsLeaveStore
     /\ last'.op = "Snapshot" =>
          \A k \in DOMAIN last'.snap : last'.snap[k].Priority # 0
    ]_vars

\* C26 (amended): no read operation changes the store; a record saved
\* with Priority 0 is stored with Priority 0 and stays so; GetServices of
\* either backend shows a stored Priority 0 as 10, on the returned copy
\* only; Snapshot shows the stored values as they are, Priority 0 included.
C26_ReadsLeaveStoreUnchanged ==
  [][/\ ReadsLeaveStore
     /\ last'.op = "Snapshot" => last'.snap = mem
    ]_vars

\* C26 witness: a GetServices has returned the record under "/a" with
\* Priority 10 from both backends, and both still store it with Priority 0.
C26_Witness ==
  /\ last.op = "GetServices" /\ ~last.canceled /\ last.key = Ka
  /\ Ka \in DOMAIN mem /\ mem[Ka].Priority = 0
  /\ Ka \in DOMAIN sql /\ Decoded(sql)[Ka].Priority = 0
  /\ \E i \in 1..Len(last.memRes) :
       last.memRes[i].Key = Ka /\ last.memRes[i].Priority = priority
  /\ \E i \in 1..Len(last.sqlRes) :
       last.sqlRes[i].Key = Ka /\ last.sqlRes[i].Priority = priority

(***************************************************************************)
(* C27: concurrent operations on one key                                   *)
(***************************************************************************)
\* The callers whose SaveService on key K returned nil.
SaversOf(K) ==
  { t \in Threads :
      Op(t) = "SaveService" /\ call[t].key = K /\ loc[t].err = ErrNil }

\* The callers whose DeleteService returned nil and was addressed at K or
\* at an ancestor of K.
DeletersOf(K) ==
  { t \in Threads :
      /\ Op(t) = "DeleteService" /\ loc[t].err = ErrNil
      /\ (call[t].key = K \/ IsBelow(K, call[t].key)) }

\* C27: a SaveService that is about to return nil still holds the lock
\* and the store holds its record, whole, under its key; a DeleteService
\* that is about to return nil leaves no record at its key; and when all
\* callers have returned, a key that some of them saved (none of them
\* cleared the store) holds exactly one record, equal in every field to the
\* record of one of those savers, or, if a delete of that key ran as well,
\* possibly no record.
C27_SameKeySerialized ==
  /\ \A t \in Threads :
       (pc[t] = "unlock" /\ loc[t].err = ErrNil) =>
         /\ Op(t) = "SaveService" => ReadBack(call[t].key) = {call[t].svc}
         /\ Op(t) = "DeleteService" => ReadBack(call[t].key) = {}
  /\ AllDone =>
       \A K \in KeySpace :
         (SaversOf(K) # {} /\ \A t \in Threads : Op(t) # "Clear") =>
           \/ \E t \in SaversOf(K) : ReadBack(K) = {call[t].svc}
           \/ DeletersOf(K) # {} /\ ReadBack(K) = {}

\* C27 witness: two SaveService calls on "/a" with different contents have
\* both returned nil; the store holds the record of the caller that started
\* first, which took the lock last.
C27_Witness ==
  /\ AllDone
  /\ SaversOf(Ka) = Threads
  /\ \A t, u \in Threads : t # u => call[t].svc # call[u].svc
  /\ ReadBack(Ka) = {call[1].svc}

(***************************************************************************)
(* C28: a prefix delete is atomic for readers                              *)
(***************************************************************************)
\* The store after the deletes the callers make, applied to `store` whole.
AfterDeletes(store) ==
  Without(store,
    { k \in DOMAIN store :
        \E u \in Threads :
          /\ Op(u) = "DeleteService"
          /\ (k = call[u].key \/ IsBelow(k, call[u].key)) })

\* What caller t's read returned is what that read returns on `store`.
Observes(t, store) ==
  /\ Op(t) = "GetServices" =>
       LET hit == { k \in DOMAIN store : IsLiteralPrefix(call[t].key, k) }
       IN /\ ResultSet(loc[t].res) =
               { DefaultPriority([store[k] EXCEPT !.Key = k]) : k \in hit }
          /\ Len(loc[t].res) = Cardinality(hit)
  /\ Op(t) = "Keys" => loc[t].keys = Ascending(DOMAIN store)
  /\ Op(t) = "Count" => loc[t].count = Cardinality(DOMAIN store)
  /\ Op(t) = "Snapshot" => loc[t].snap = store

\* Apart from t, only readers and DeleteService callers have started.
OnlyDeletesBeside(t) ==
  \A u \in Threads \ {t} :
    pc[u] = "idle" \/ Op(u) \in ReaderOps \cup {"DeleteService"}

\* C28: a GetServices, Keys, Count or Snapshot that has returned without
\* error, beside DeleteService calls and other reads only, has returned
\* what it returns on the store as it was before the deletes or on the
\* store with the deleted key and everything under it removed.
C28_DeleteAtomicForReaders ==
  \A t \in Threads :
    (/\ pc[t] \in {"unlock", "done"}
     /\ Op(t) \in ReaderOps
     /\ loc[t].err = ErrNil
     /\ OnlyDeletesBeside(t)) =>
      Observes(t, start) \/ Observes(t, AfterDeletes(start))

\* C28 witness: on the in-memory backend a GetServices("/a") has collected
\* all three records "/a", "/a/b" and "/ab" and is about to return, while
\* a DeleteService("/a") has announced itself and waits for the reader.
C28_Witness ==
  \E t, u \in Threads :
    /\ backend = "memory" /\ start = SeedStore
    /\ pc[t] = "unlock" /\ Op(t) = "GetServices" /\ loc[t].err = ErrNil
    /\ ResultKeys(loc[t].res) = KeySpace
    /\ pc[u] = "drain" /\ Op(u) = "DeleteService" /\ call[u].key = Ka
    /\ OnlyDeletesBeside(t)

(***************************************************************************)
(* C29: the in-memory backend stores an independent copy                   *)
(***************************************************************************)
\* C29: every value the in-memory backend stores, and every value a
\* Snapshot shows, has an empty Key; right after SaveService the caller's
\* record is what it was before the call, Key included; and the store
\* holds under each key the record as it was when it was last saved there,
\* whatever the caller did to its record afterwards.
C29_StoresIndependentCopy ==
  /\ \A k \in DOMAIN mem : mem[k].Key = <<>>
  /\ last.op = "Snapshot" =>
       (last.snap = mem /\ \A k \in DOMAIN last.snap : last.snap[k].Key = <<>>)
  /\ last.op = "SaveService" =>
       (caller.rec = last.svc /\ caller.rec.Key = last.key)
  /\ last.op = "Change" => mem = last.memPre
  /\ DOMAIN mem = DOMAIN caller.saved
  /\ \A k \in DOMAIN mem : mem[k] = [caller.saved[k] EXCEPT !.Key = <<>>]

\* C29 witness: the caller saved its record under "/a", then changed the
\* record's Host and TTL; the store still holds the Host and TTL that were
\* saved, and the record still carries its Key.
C29_Witness ==
  /\ last.op = "Change"
  /\ caller.rec.Key = Ka /\ Ka \in DOMAIN mem
  /\ mem[Ka].Host # caller.rec.Host
  /\ mem[Ka].TTL # caller.rec.TTL
  /\ mem[Ka].Key = <<>>

(***************************************************************************)
(* C30: where the selector takes its configuration from                    *)
(***************************************************************************)
\* Every environment the two variables can make.
EnvSpace ==
  { [COREDNS_BACKEND |-> b, COREDNS_SQLITE_PATH |-> p] :
      b \in {Unset} \cup { [set |-> TRUE, val |-> v] : v \in BackendEnvSpace },
      p \in { [set |-> FALSE, val |-> ""] }
              \cup { [set |-> TRUE, val |-> q] : q \in PathSpace } }

\* The configuration built from the environment, as a non-nil argument.
EnvConfig(e) ==
  [nil |-> FALSE,
   Type |-> GetBackendType(e),
   SQLitePath |-> Getenv(e, "COREDNS_SQLITE_PATH")]

\* The configuration a NewBackend call works with.
Effective(cfg, e) == IF cfg.nil THEN EnvConfig(e) ELSE cfg

\* C30: NewBackend(nil) returns what NewBackend returns for the
\* configuration built from COREDNS_BACKEND and COREDNS_SQLITE_PATH; with
\* a non-nil configuration it returns the same in every environment; and
\* an embedded-SQL backend it opens reports the configured SQLitePath, or
\* /var/lib/external-dns/coredns.db when the SQLitePath is empty.
C30_ConfigurationFlow ==
  sel.op = "NewBackend" =>
    /\ sel.cfg.nil => sel.res = NewBackend(EnvConfig(env), NoEnv, sel.ok)
    /\ ~sel.cfg.nil => \A e \in EnvSpace : sel.res = NewBackend(sel.cfg, e, sel.ok)
    /\ (Effective(sel.cfg, env).Type = BackendTypeSQLite /\ sel.ok) =>
         /\ sel.res.kind = "sqlite" /\ sel.res.err = ErrNil
         /\ sel.res.path =
              IF Effective(sel.cfg, env).SQLitePath # ""
              THEN Effective(sel.cfg, env).SQLitePath
              ELSE DefaultSQLitePath

\* C30 witness: with COREDNS_BACKEND=memory and COREDNS_SQLITE_PATH set, a
\* configuration of Type sqlite with an empty SQLitePath opened the
\* database at the default path.
C30_Witness ==
  /\ sel.op = "NewBackend" /\ ~sel.cfg.nil /\ sel.ok
  /\ sel.cfg.Type = BackendTypeSQLite /\ sel.cfg.SQLitePath = ""
  /\ Getenv(env, "COREDNS_BACKEND") = BackendTypeMemory
  /\ Getenv(env, "COREDNS_SQLITE_PATH") = "/data/dns.db"
  /\ sel.res.kind = "sqlite" /\ sel.res.path = DefaultSQLitePath

(***************************************************************************)
(* C11: termination and release of the lock and the connection             *)
(***************************************************************************)
\* C11: under fair scheduling every call that was started returns, and once
\* every caller has returned - with success, the cancellation error or an
\* engine error - the read-write lock is free and the pool's connection is
\* back; a caller that has returned holds neither.
C11_EveryCallReturns ==
  /\ <>[](\A t \in Threads : pc[t] \in {"idle", "done"})
  /\ [](\A t \in Threads :
         pc[t] = "done" => (t \notin rw.readers /\ rw.writer # t /\ conn # t))
  /\ [](AllDone => (rw = RWInit /\ conn = 0))

\* C11 witness: on the embedded-SQL backend every caller has returned, one
\* of them with the cancellation error and one with success.
C11_Witness ==
  /\ AllDone
  /\ backend = "sqlite"
  /\ \E t \in Threads : Op(t) = "GetServices" /\ loc[t].err = ErrCanceled
  /\ \E t \in Threads : Op(t) = "SaveService" /\ loc[t].err = ErrNil
  /\ rw = RWInit /\ conn = 0

====
